---------------------------- MODULE Spec2Model ----------------------------
(***************************************************************************)
(* Model of claude-session-share: the session decoder (parseSessionFile    *)
(* and the inline decoder of importSession), the sanitizers                *)
(* (sanitizeAssistantMessage, sanitizeUserMessage,                         *)
(* sanitizeFileHistorySnapshot, sanitizePath, redactSecrets), the          *)
(* sanitization pipeline (sanitizeSession) and the identifier remapper     *)
(* (UUIDMapper).                                                           *)
(*                                                                         *)
(* Conventions.  A JavaScript string that the code inspects character by   *)
(* character (a path, a text) is a sequence of one-character strings.  An  *)
(* identifier (uuid, sessionId, parentUuid) is an atomic string; the two   *)
(* JavaScript values null and undefined are the atoms Null and Undefined.  *)
(* An optional object-valued field is a sequence of length at most one:    *)
(* << >> when the field is absent, << v >> when it holds v.                *)
(***************************************************************************)
EXTENDS Integers, Sequences, FiniteSets, TLC

VARIABLES
    map,        \* UUIDMapper.map: original identifier -> generated identifier
    issued,     \* identifiers randomUUID() has returned so far in this process
    inputs,     \* the message list handed to messages.map(mapper.remapMessage)
    outputs,    \* the remapped messages produced so far, in order
    lastArg,    \* argument of the latest remap call
    lastRet,    \* value returned by the latest remap call
    firstRet,   \* history: the value the first remap(x) call returned, per x
    repeat      \* history: the latest remap call was for an argument seen before

VARIABLES
    lines,         \* the source: the lines of the session file / gist JSONL file
    readable,      \* whether the session file could be opened and read
    rdStatus,      \* parseSessionFile: "idle", "returned" or "threw"
    rdMessages,    \* parseSessionFile: the array it returned
    rdWarnings,    \* parseSessionFile: number of console.warn skip reports
    imStatus,      \* importSession: position in the function
    imMessages,    \* importSession: messages after Step 4
    imParseErrors, \* importSession: the parseErrors counter
    imError,       \* importSession: the error caught by its catch block
    imWritten      \* importSession: the message list written to the file

VARIABLES
    session,    \* the message list handed to sanitizeSession
    sanBase,    \* the base path handed to sanitizeSession
    procCwd,    \* process.cwd(), which path.resolve reads
    sanStatus,  \* sanitizeSession: "idle", "returned" or "threw"
    sanOut,     \* sanitizeSession: the array it returned
    sanError    \* sanitizeSession: the message of the error it threw

VARIABLES
    secret,     \* the credential-shaped literal seeded in the text
    redText,    \* the text handed to redactSecrets
    redacted,   \* the text redactSecrets returned
    redStatus   \* redactSecrets: "idle" or "done"

VARIABLES
    pathArg,    \* the path handed to sanitizePath
    pathBase,   \* the base path handed to sanitizePath
    pathOut,    \* what sanitizePath(pathArg, pathBase) returned
    pathAgain,  \* what sanitizePath(pathOut, pathBase) returned
    pathStatus  \* "idle", "once" (pathOut computed) or "twice"

VARIABLES
    rdDelivered,   \* parseSessionFile: lines the stream delivered before it failed
    imReport       \* import_session handler: the text it answered with

VARIABLES
    upStatus,      \* uploadSession: position in the function
    upMessages,    \* uploadSession: the messages parseSessionFile returned
    upBase,        \* uploadSession: the base path inferBasePath returned
    upSanitized,   \* uploadSession: the messages sanitizeSession returned
    upJsonl,       \* uploadSession: the session.jsonl content handed to createGist
    upError,       \* uploadSession: the message of the error it threw
    shareReport    \* share_session handler: the text it answered with

VARIABLES
    wrMessages,    \* the message list handed to writeSessionToLocal
    wrStatus,      \* writeSessionToLocal: position in the function
    wrIo,          \* the error code mkdir or writeFile failed with, "ok" if none
    wrFile,        \* the content writeFile has written to the session file
    wrResult,      \* writeSessionToLocal: the result it returned, if any
    wrError        \* writeSessionToLocal: the message of the error it threw

VARIABLES
    argAfter,      \* the argument of the latest sanitizer or remapper call, as
                   \* the caller finds it after the call
    passes,        \* concurrent import passes: inputs, outputs and mapper of each
    imFile,        \* importSession: the name of the session file, without .jsonl
    gistFiles      \* the files createGist was called with

mapperVars == <<map, issued, inputs, outputs, lastArg, lastRet, firstRet, repeat>>

readerVars == <<rdStatus, rdMessages, rdWarnings>>

importVars == <<imStatus, imMessages, imParseErrors, imError, imWritten>>

sanitizeVars == <<session, sanBase, procCwd, sanStatus, sanOut, sanError>>

redactVars == <<secret, redText, redacted, redStatus>>

pathVars == <<pathArg, pathBase, pathOut, pathAgain, pathStatus>>

exportVars == <<upStatus, upMessages, upBase, upSanitized, upJsonl, upError,
                shareReport, gistFiles>>

writerVars == <<wrMessages, wrStatus, wrIo, wrFile, wrResult, wrError>>

vars == <<mapperVars, lines, readable, readerVars, importVars, sanitizeVars, redactVars,
          pathVars, rdDelivered, imReport, exportVars, writerVars, argAfter, passes, imFile>>

(***************************************************************************)
(* JavaScript atoms                                                        *)
(***************************************************************************)
Null == "null"
Undefined == "undefined"

\* A field value that is present but is not a string (a JSON number).
NonString == "#number"

\* typeof v === 'string' for an identifier or type field.
IsString(v) == v \notin {Null, Undefined, NonString}

(***************************************************************************)
(* Session messages (session/types.ts).  One record shape holds every      *)
(* JSON value a line can parse to: json is "object", "null" (the JSON      *)
(* literal null) or "scalar" (a number, string or boolean).  cwd is a      *)
(* text; an absent text and the empty text are both << >>, and so are an   *)
(* absent list and the empty list.  snapshot holds a snapshot object       *)
(* (AssistantSnapshot's thinking and messages, FileHistorySnapshotData's   *)
(* files), message a message object (UserMessageContent,                   *)
(* ApiResponseMessage).                                                    *)
(***************************************************************************)
BlankObject ==
    [json |-> "object", type |-> Undefined, uuid |-> Undefined,
     sessionId |-> Undefined, parentUuid |-> Undefined,
     cwd |-> << >>, snapshot |-> << >>, message |-> << >>]

\* A snapshot object.  thinking is << >> for null and << t >> for the string
\* t; messages is the list of {role, content} entries, files the list of
\* FileState entries.
BlankSnapshot == [thinking |-> << >>, messages |-> << >>, files |-> << >>]

\* A message object.  text is the string content of a user message, content
\* the ContentBlock list of an assistant message.
BlankMessage == [text |-> << >>, content |-> << >>]

\* A ContentBlock: its type, its text, and input for the other fields that
\* tool blocks carry.
Block(t, text, input) == [type |-> t, text |-> text, input |-> input]

\* The three record kinds of the SessionMessage union.
MessageTypes == {"user", "assistant", "file-history-snapshot"}

(***************************************************************************)
(* Texts: a JavaScript string is a sequence of one-character strings.      *)
(***************************************************************************)
UpperSeq == <<"A", "B", "C", "D", "E", "F", "G", "H", "I", "J", "K", "L", "M", "N", "O", "P", "Q", "R", "S", "T", "U", "V", "W", "X", "Y", "Z">>
LowerSeq == <<"a", "b", "c", "d", "e", "f", "g", "h", "i", "j", "k", "l", "m", "n", "o", "p", "q", "r", "s", "t", "u", "v", "w", "x", "y", "z">>
DigitSeq == <<"0", "1", "2", "3", "4", "5", "6", "7", "8", "9">>

Range(f) == { f[i] : i \in DOMAIN f }

Upper == Range(UpperSeq)
Lower == Range(LowerSeq)
Digit == Range(DigitSeq)

\* \w, \s and the quote characters of the regular expressions.
IsWord(c) == c \in Upper \cup Lower \cup Digit \cup {"_"}
SpaceChars == {" ", "\n", "\t", "\r"}
QuoteChars == {"\"", "'"}
IsSpace(c) == c \in SpaceChars
IsQuote(c) == c \in QuoteChars

\* A character class [...] or [^...] of a regular expression, and the test
\* that the character c, if there is one, belongs to it.
Class(chars) == [negated |-> FALSE, chars |-> chars]
NotClass(chars) == [negated |-> TRUE, chars |-> chars]
InClass(c, class) == c # "" /\ (c \in class.chars) # class.negated

Spaces == Class(SpaceChars)
Quotes == Class(QuoteChars)
Alnum == Class(Upper \cup Lower \cup Digit)

\* The character at index i, or "" outside the text.
CharAt(s, i) == IF 1 <= i /\ i <= Len(s) THEN s[i] ELSE ""

\* String.prototype.toLowerCase on one character (the i flag).
ToLower(c) ==
    IF c \in Upper THEN LowerSeq[CHOOSE i \in 1..Len(UpperSeq) : UpperSeq[i] = c] ELSE c

\* The literal lit occurs in s at index i.
LitAt(s, i, lit) == \A k \in 1..Len(lit) : CharAt(s, i + k - 1) = lit[k]

\* The same, ignoring case; lit is in lower case.
LitAtCI(s, i, lit) == \A k \in 1..Len(lit) : ToLower(CharAt(s, i + k - 1)) = lit[k]

Min(S) == CHOOSE x \in S : \A y \in S : x <= y

\* A greedy run c* from index i: the index after its last character.
RunEnd(s, i, class) ==
    LET stops == { j \in i..Len(s) : ~InClass(s[j], class) }
    IN  IF stops = {} THEN Len(s) + 1 ELSE Min(stops)

\* \b at index i: exactly one of the characters before and at i is a word
\* character.
WordBoundary(s, i) == IsWord(CharAt(s, i - 1)) # IsWord(CharAt(s, i))

\* s.includes(lit)
Contains(s, lit) == \E i \in 1..(Len(s) - Len(lit) + 1) : LitAt(s, i, lit)

\* The text s[i..j-1].
Slice(s, i, j) == SubSeq(s, i, j - 1)

\* The result of trying a regular expression at one index: whether it
\* matches there, the index after the match, and the replacement text.
NoMatch == [ok |-> FALSE, end |-> 0, out |-> << >>]
Match(e, o) == [ok |-> TRUE, end |-> e, out |-> o]

(***************************************************************************)
(* redactSecrets (sanitization/redactor.ts).  Each pattern is given by the *)
(* operator that tries it at one index of the text, as the regular         *)
(* expression engine does: greedy quantifiers, leftmost match.             *)
(***************************************************************************)

\* The quantifier bounds of the patterns.
MinQuotedValue == 8
MinEnvValue == 8
MinGithubToken == 30
AwsKeyIdLen == 16
MinAwsSecret == 20
MinGenericSecret == 32
MaxPadding == 2
MaxPathPieces == 2

Redacted == <<"[", "R", "E", "D", "A", "C", "T", "E", "D", "]">>
RedactedQuoted == <<"\"", "[", "R", "E", "D", "A", "C", "T", "E", "D", "]", "\"">>
RedactedPrivateKey == <<"[", "R", "E", "D", "A", "C", "T", "E", "D", " ", "P", "R", "I", "V", "A", "T", "E", " ", "K", "E", "Y", "]">>

IsAssign(c) == c \in {"=", ":"}
IsUpperDigit(c) == c \in Upper \cup Digit
Seps == Class({"_", "-"})
EqualsSigns == Class({"="})
ValueChars == NotClass(QuoteChars \cup SpaceChars)
UpperUnderscore == Class(Upper \cup {"_"})
Base64 == Class(Upper \cup Lower \cup Digit \cup {"+", "/"})

\* An optional single character x? at index i: the index after it.
SkipOpt(s, i, class) == IF InClass(CharAt(s, i), class) THEN i + 1 ELSE i

\* Pattern 1, the key names: stem [_-]? tail, and the bare name token.
P1Names ==
    { <<<<"a", "p", "i">>, <<"k", "e", "y">>>>, <<<<"a", "c", "c", "e", "s", "s">>, <<"k", "e", "y">>>>, <<<<"s", "e", "c", "r", "e", "t">>, <<"k", "e", "y">>>>,
      <<<<"a", "c", "c", "e", "s", "s">>, <<"t", "o", "k", "e", "n">>>>, <<<<"a", "u", "t", "h">>, <<"t", "o", "k", "e", "n">>>>,
      <<<<"b", "e", "a", "r", "e", "r">>, <<"t", "o", "k", "e", "n">>>> }

\* Pattern 1: the indices at which a key name starting at p can end.
P1NameEnds(s, p) ==
    { SkipOpt(s, p + Len(n[1]), Seps) + Len(n[2]) :
        n \in { n \in P1Names :
                  /\ LitAtCI(s, p, n[1])
                  /\ LitAtCI(s, SkipOpt(s, p + Len(n[1]), Seps), n[2]) } }
    \cup (IF LitAtCI(s, p, <<"t", "o", "k", "e", "n">>) THEN {p + 5} ELSE {})

\* Pattern 1 after the key name, which ended at e: ["']? \s* [=:] \s* then a
\* quoted value of MinQuotedValue or more characters.
P1Tail(s, i, e) ==
    LET p3 == SkipOpt(s, e, Quotes)
        p4 == RunEnd(s, p3, Spaces)
        p5 == RunEnd(s, p4 + 1, Spaces)
        p6 == RunEnd(s, p5 + 1, ValueChars)
    IN  IF /\ IsAssign(CharAt(s, p4))
           /\ IsQuote(CharAt(s, p5))
           /\ p6 - (p5 + 1) >= MinQuotedValue
           /\ IsQuote(CharAt(s, p6))
        THEN Match(p6 + 1, Slice(s, i, p5) \o RedactedQuoted)
        ELSE NoMatch

\* Pattern 1: API keys in JSON/object notation (flags gi).
P1At(s, i) ==
    LET good == { e \in P1NameEnds(s, SkipOpt(s, i, Quotes)) : P1Tail(s, i, e).ok }
    IN  IF good = {} THEN NoMatch ELSE P1Tail(s, i, CHOOSE e \in good : TRUE)

P2Keywords == { <<"K", "E", "Y">>, <<"T", "O", "K", "E", "N">>, <<"S", "E", "C", "R", "E", "T">>, <<"P", "A", "S", "S", "W", "O", "R", "D">>, <<"A", "U", "T", "H">> }

\* Pattern 2: the run s[i..e-1] of [A-Z_] has the form
\* [A-Z_]+ (KEY|TOKEN|SECRET|PASSWORD|AUTH) [A-Z_]*.
P2Named(s, i, e) ==
    \E k \in P2Keywords : \E j \in (i + 1)..(e - Len(k)) : LitAt(s, j, k)

\* Pattern 2: environment variable format NAME=value (flag g).
P2At(s, i) ==
    LET e == RunEnd(s, i, UpperUnderscore)
        p == RunEnd(s, e, Spaces)
        q == RunEnd(s, p + 1, Spaces)
        v == RunEnd(s, q, ValueChars)
    IN  IF /\ WordBoundary(s, i)
           /\ InClass(CharAt(s, i), UpperUnderscore)
           /\ P2Named(s, i, e)
           /\ CharAt(s, p) = "="
           /\ v - q >= MinEnvValue
        THEN Match(v, Slice(s, i, e) \o <<"=">> \o Redacted)
        ELSE NoMatch

P3Prefixes == { <<"g", "h", "p", "_">>, <<"g", "h", "s", "_">>, <<"g", "i", "t", "h", "u", "b", "_", "p", "a", "t", "_">> }

\* Pattern 3: GitHub tokens.
P3At(s, i) ==
    LET ps == { p \in P3Prefixes : LitAt(s, i, p) }
    IN  IF ps = {} \/ ~WordBoundary(s, i) THEN NoMatch
        ELSE LET b == i + Len(CHOOSE p \in ps : TRUE)
                 e == RunEnd(s, b, Alnum)
             IN  IF e - b >= MinGithubToken THEN Match(e, Redacted) ELSE NoMatch

\* Pattern 4, first expression: AWS access key ids.
P4KeyIdAt(s, i) ==
    LET e == i + 4 + AwsKeyIdLen
    IN  IF /\ WordBoundary(s, i)
           /\ LitAt(s, i, <<"A", "K", "I", "A">>)
           /\ \A k \in (i + 4)..(e - 1) : IsUpperDigit(CharAt(s, k))
           /\ WordBoundary(s, e)
        THEN Match(e, Redacted)
        ELSE NoMatch

\* Pattern 4, second expression: aws_secret_access_key with its value (flags gi).
P4SecretAt(s, i) ==
    LET a == SkipOpt(s, i + 3, Seps)
        b == SkipOpt(s, a + 6, Seps)
        c == SkipOpt(s, b + 6, Seps)
        p == RunEnd(s, c + 3, Spaces)
        q == RunEnd(s, p + 1, Spaces)
        r == SkipOpt(s, q, Quotes)
        v == RunEnd(s, r, ValueChars)
    IN  IF /\ LitAtCI(s, i, <<"a", "w", "s">>)
           /\ LitAtCI(s, a, <<"s", "e", "c", "r", "e", "t">>)
           /\ LitAtCI(s, b, <<"a", "c", "c", "e", "s", "s">>)
           /\ LitAtCI(s, c, <<"k", "e", "y">>)
           /\ IsAssign(CharAt(s, p))
           /\ v - r >= MinAwsSecret
        THEN Match(SkipOpt(s, v, Quotes), Slice(s, i, q) \o Redacted)
        ELSE NoMatch

\* Pattern 5: a base64 or hex run in value position, spared by the callback
\* when it looks like a file path.
P5At(s, i) ==
    LET p == RunEnd(s, i + 1, Spaces)
        q == SkipOpt(s, p, Quotes)
        r == RunEnd(s, q, Base64)
        pad == RunEnd(s, r, EqualsSigns)
        t == IF pad - r > MaxPadding THEN r + MaxPadding ELSE pad
        z == SkipOpt(s, t, Quotes)
        slashes == Cardinality({ k \in q..(t - 1) : s[k] = "/" })
    IN  IF IsAssign(CharAt(s, i)) /\ r - q >= MinGenericSecret
        THEN IF slashes >= 1 /\ slashes + 1 > MaxPathPieces
             THEN Match(z, Slice(s, i, z))
             ELSE Match(z, Slice(s, i, p) \o Redacted)
        ELSE NoMatch

PemBegin == <<"-", "-", "-", "-", "-", "B", "E", "G", "I", "N", " ">>
PemEnd == <<"-", "-", "-", "-", "-", "E", "N", "D", " ">>
PemKinds == { <<"R", "S", "A", " ">>, <<"E", "C", " ">>, <<"O", "P", "E", "N", "S", "S", "H", " ">>, << >> }
PemTail == <<"P", "R", "I", "V", "A", "T", "E", " ", "K", "E", "Y", "-", "-", "-", "-", "-">>

\* Pattern 6: where a BEGIN or END line starting at index i ends.
PemLineEnds(s, i, word) ==
    { i + Len(word) + Len(k) + Len(PemTail) :
        k \in { k \in PemKinds :
                  /\ LitAt(s, i, word)
                  /\ LitAt(s, i + Len(word), k)
                  /\ LitAt(s, i + Len(word) + Len(k), PemTail) } }

\* Pattern 6: private key blocks, the body matched lazily.
P6At(s, i) ==
    LET heads == PemLineEnds(s, i, PemBegin)
    IN  IF heads = {} THEN NoMatch
        ELSE LET h == CHOOSE e \in heads : TRUE
                 ends == { j \in h..Len(s) : PemLineEnds(s, j, PemEnd) # {} }
             IN  IF ends = {} THEN NoMatch
                 ELSE Match(CHOOSE e \in PemLineEnds(s, Min(ends), PemEnd) : TRUE,
                            RedactedPrivateKey)

\* The patterns in the order redactSecrets applies them.
PatternAt(k, s, i) ==
    CASE k = 1 -> P1At(s, i)
      [] k = 2 -> P2At(s, i)
      [] k = 3 -> P3At(s, i)
      [] k = 4 -> P4KeyIdAt(s, i)
      [] k = 5 -> P4SecretAt(s, i)
      [] k = 6 -> P5At(s, i)
      [] k = 7 -> P6At(s, i)

RECURSIVE replaceAll(_, _, _)
\* String.prototype.replace with the global expression k, from index i on:
\* each match is replaced, the text between matches is copied.
replaceAll(k, s, i) ==
    LET hits == { j \in i..Len(s) : PatternAt(k, s, j).ok }
    IN  IF hits = {} THEN Slice(s, i, Len(s) + 1)
        ELSE LET m == PatternAt(k, s, Min(hits))
             IN  Slice(s, i, Min(hits)) \o m.out \o replaceAll(k, s, m.end)

RECURSIVE applyPatterns(_, _)
\* The successive replace calls of redactSecrets, from pattern k on.
applyPatterns(k, s) ==
    IF k > 7 THEN s ELSE applyPatterns(k + 1, replaceAll(k, s, 1))

\* redactSecrets(content)
redactSecrets(content) ==
    IF content = << >> THEN content ELSE applyPatterns(1, content)

(***************************************************************************)
(* Paths (node:path as sanitizer.ts calls it, POSIX).  cwd is the working  *)
(* directory of the process, which path.resolve reads.                     *)
(***************************************************************************)
IsPathSep(c) == c \in {"/", "\\"}

StartsWith(s, prefix) ==
    Len(prefix) <= Len(s) /\ SubSeq(s, 1, Len(prefix)) = prefix

RECURSIVE Split(_)
\* s.split('/')
Split(s) ==
    LET seps == { i \in 1..Len(s) : s[i] = "/" }
    IN  IF seps = {} THEN <<s>>
        ELSE <<Slice(s, 1, Min(seps))>> \o Split(SubSeq(s, Min(seps) + 1, Len(s)))

RECURSIVE NormalizeSegments(_, _)
\* The segments of an absolute path with empty, "." and ".." segments
\* resolved; acc holds the segments kept so far.
NormalizeSegments(segs, acc) ==
    IF segs = << >> THEN acc
    ELSE IF Head(segs) = << >> \/ Head(segs) = <<".">>
         THEN NormalizeSegments(Tail(segs), acc)
    ELSE IF Head(segs) = <<".", ".">>
         THEN NormalizeSegments(Tail(segs),
                                IF acc = << >> THEN acc ELSE SubSeq(acc, 1, Len(acc) - 1))
    ELSE NormalizeSegments(Tail(segs), Append(acc, Head(segs)))

RECURSIVE JoinPath(_)
\* segs.join('/')
JoinPath(segs) ==
    IF segs = << >> THEN << >>
    ELSE IF Len(segs) = 1 THEN segs[1]
    ELSE segs[1] \o <<"/">> \o JoinPath(Tail(segs))

\* path.resolve(p) in a process whose working directory is cwd.
resolve(cwd, p) ==
    LET abs == IF CharAt(p, 1) = "/" THEN p ELSE cwd \o <<"/">> \o p
    IN  <<"/">> \o JoinPath(NormalizeSegments(Split(abs), << >>))

\* path.relative(from, to) for two resolved paths.
relative(from, to) ==
    LET f == NormalizeSegments(Split(from), << >>)
        t == NormalizeSegments(Split(to), << >>)
        shorter == IF Len(f) < Len(t) THEN Len(f) ELSE Len(t)
        common == Cardinality({ k \in 1..shorter : SubSeq(f, 1, k) = SubSeq(t, 1, k) })
        ups == [i \in 1..(Len(f) - common) |-> <<".", ".">>]
    IN  JoinPath(ups \o SubSeq(t, common + 1, Len(t)))

(***************************************************************************)
(* The sanitizers (sanitization/sanitizer.ts)                              *)
(***************************************************************************)

\* sanitizePath(absolutePath, basePath)
sanitizePath(absolutePath, basePath, cwd) ==
    IF basePath = << >> \/ absolutePath = << >> THEN absolutePath
    ELSE LET normalizedBase == resolve(cwd, basePath)
             normalizedPath == resolve(cwd, absolutePath)
         IN  IF StartsWith(normalizedPath, normalizedBase)
             THEN LET relativePath == relative(normalizedBase, normalizedPath)
                  IN  IF relativePath = << >> THEN <<".">> ELSE relativePath
             ELSE absolutePath

\* [^\s"'<>|], the characters a path continues with in pathRegex.
PathChars == NotClass(SpaceChars \cup {"\"", "'", "<", ">", "|"})

RECURSIVE BaseEnd(_, _, _, _)
\* pathRegex up to the end of the base: the index after the text that
\* matches normalizedBase[k..] from index i, or 0.  A "." of the base is
\* escaped to \. and the backslash then rewritten to [\\/], which leaves a
\* separator followed by any character but a line terminator.  Base paths
\* hold no other character of [.*+?^${}()|[\]\\].
BaseEnd(s, i, normalizedBase, k) ==
    IF k > Len(normalizedBase) THEN i
    ELSE IF normalizedBase[k] = "."
         THEN IF IsPathSep(CharAt(s, i)) /\ CharAt(s, i + 1) \notin {"", "\n", "\r"}
              THEN BaseEnd(s, i + 2, normalizedBase, k + 1)
              ELSE 0
    ELSE IF CharAt(s, i) = normalizedBase[k]
         THEN BaseEnd(s, i + 1, normalizedBase, k + 1)
    ELSE 0

\* pathRegex at index i, with the callback's replacement.
PathAt(s, i, basePath, cwd) ==
    LET e == BaseEnd(s, i, resolve(cwd, basePath), 1)
        r == RunEnd(s, e + 1, PathChars)
    IN  IF e > 0 /\ IsPathSep(CharAt(s, e))
        THEN Match(r, sanitizePath(Slice(s, i, r), basePath, cwd))
        ELSE NoMatch

RECURSIVE replacePaths(_, _, _, _)
\* content.replace(pathRegex, callback) from index i on.
replacePaths(s, i, basePath, cwd) ==
    LET hits == { j \in i..Len(s) : PathAt(s, j, basePath, cwd).ok }
    IN  IF hits = {} THEN Slice(s, i, Len(s) + 1)
        ELSE LET m == PathAt(s, Min(hits), basePath, cwd)
             IN  Slice(s, i, Min(hits)) \o m.out \o replacePaths(s, m.end, basePath, cwd)

\* sanitizePathsInContent(content, basePath)
sanitizePathsInContent(content, basePath, cwd) ==
    IF basePath = << >> \/ content = << >> THEN content
    ELSE replacePaths(content, 1, basePath, cwd)

\* The outcome of a call: the value returned, or the error thrown.
Returned(v) == [threw |-> FALSE, error |-> "", value |-> v]
Threw(e) == [threw |-> TRUE, error |-> e, value |-> << >>]

AssistantFormatError == "AssistantMessage must have either snapshot or message field"
TypeError == "TypeError"

\* redactSecrets(sanitizePathsInContent(content, basePath))
sanitizeContent(content, basePath, cwd) ==
    redactSecrets(sanitizePathsInContent(content, basePath, cwd))

\* sanitizeAssistantMessage, a mutant: no format check, the record is
\* returned as it is.
sanitizeAssistantMessageLenient(msg, basePath, cwd) == Returned(msg)

\* The callback of .map in sanitizeAssistantMessage, a mutant: the text and
\* the other fields of every block are sanitized.
sanitizeBlockEveryField(block, basePath, cwd) ==
    [block EXCEPT !.text = sanitizeContent(@, basePath, cwd),
                  !.input = sanitizeContent(@, basePath, cwd)]

\* The callback of .map in sanitizeAssistantMessage: a text block with text
\* is rebuilt with its text sanitized, any other block is returned as it is.
sanitizeBlock(block, basePath, cwd) ==
    IF block.type = "text" /\ block.text # << >>
    THEN [block EXCEPT !.text = sanitizeContent(@, basePath, cwd)]
    ELSE block

\* sanitizeAssistantMessage(msg, basePath)
sanitizeAssistantMessage(msg, basePath, cwd) ==
    IF msg.snapshot # << >>
    THEN LET entries == msg.snapshot[1].messages
         IN  Returned([msg EXCEPT !.snapshot =
                 << [thinking |-> << >>,
                     messages |-> [i \in 1..Len(entries) |->
                         [entries[i] EXCEPT !.content = sanitizeContent(@, basePath, cwd)]],
                     files |-> << >>] >>])
    ELSE IF msg.message # << >>
    THEN LET NotThinking(block) == block.type # "thinking"
             kept == SelectSeq(msg.message[1].content, NotThinking)
         IN  Returned([msg EXCEPT !.message =
                 << [msg.message[1] EXCEPT !.content = [i \in 1..Len(kept) |->
                         sanitizeBlock(kept[i], basePath, cwd)]] >>])
    ELSE Threw(AssistantFormatError)

\* sanitizeUserMessage, a mutant: the record is rebuilt without its uuid.
sanitizeUserMessageNoUuid(msg, basePath, cwd) ==
    [msg EXCEPT !.cwd = sanitizePath(@, basePath, cwd), !.uuid = Undefined]

\* sanitizeUserMessage(msg, basePath)
sanitizeUserMessage(msg, basePath, cwd) ==
    [msg EXCEPT !.cwd = sanitizePath(@, basePath, cwd)]

\* sanitizeFileHistorySnapshot(msg, basePath); reading msg.snapshot.files
\* of a record without snapshot is a TypeError.
sanitizeFileHistorySnapshot(msg, basePath, cwd) ==
    IF msg.snapshot = << >> THEN Threw(TypeError)
    ELSE LET files == msg.snapshot[1].files
         IN  Returned([msg EXCEPT !.snapshot =
                 << [msg.snapshot[1] EXCEPT !.files = [i \in 1..Len(files) |->
                         [files[i] EXCEPT !.path = sanitizePath(@, basePath, cwd)]]] >>])

(***************************************************************************)
(* The pipeline (sanitization/pipeline.ts)                                 *)
(***************************************************************************)

\* The callback of messages.map in sanitizeSession: the switch on msg.type.
\* Reading the type of null is a TypeError; a type outside the three cases
\* takes the default branch.
sanitizeMessage(msg, base, cwd) ==
    IF msg.json = "null" THEN Threw(TypeError)
    ELSE IF msg.json = "object" /\ msg.type = "assistant"
         THEN sanitizeAssistantMessage(msg, base, cwd)
    ELSE IF msg.json = "object" /\ msg.type = "user"
         THEN Returned(sanitizeUserMessage(msg, base, cwd))
    ELSE IF msg.json = "object" /\ msg.type = "file-history-snapshot"
         THEN sanitizeFileHistorySnapshot(msg, base, cwd)
    ELSE Returned(msg)

\* Array.prototype.map, a mutant: an element whose callback throws is left
\* out and the call goes on.
mapOutcomeSkipFailed(results) ==
    LET ok == SelectSeq(results, LAMBDA r : ~r.threw)
    IN  Returned([i \in 1..Len(ok) |-> ok[i].value])

\* Array.prototype.map, a mutant: the mapped elements come out newest first.
mapOutcomeNewestFirst(results) ==
    LET failed == { i \in 1..Len(results) : results[i].threw }
    IN  IF failed # {} THEN Threw(results[Min(failed)].error)
        ELSE Returned([i \in 1..Len(results) |->
                          results[Len(results) + 1 - i].value])

\* The outcome of messages.map given the outcome of the callback for each
\* element: the callback is called in order, so the call ends with the first
\* error thrown, and returns the mapped elements if there is none.
mapOutcome(results) ==
    LET failed == { i \in 1..Len(results) : results[i].threw }
    IN  IF failed # {} THEN Threw(results[Min(failed)].error)
        ELSE Returned([i \in 1..Len(results) |-> results[i].value])

\* sanitizeSession(messages, basePath)
sanitizeSession(messages, base, cwd) ==
    mapOutcome([i \in 1..Len(messages) |-> sanitizeMessage(messages[i], base, cwd)])

\* inferBasePath(messages): the cwd of the first user message whose cwd is
\* truthy, the empty string if there is none.
inferBasePath(messages) ==
    LET withCwd == { i \in 1..Len(messages) :
                       messages[i].type = "user" /\ messages[i].cwd # << >> }
    IN  IF withCwd = {} THEN << >> ELSE messages[Min(withCwd)].cwd

(***************************************************************************)
(* UUIDMapper                                                              *)
(***************************************************************************)

\* Original identifiers occurring in the modelled sessions.
OrigIds == {"a", "b", "s"}

\* The values randomUUID() can return.  crypto.randomUUID() draws 122 random
\* bits; the model lets it return any identifier it has not returned before.
NewUuids == {"n1", "n2", "n3", "n4"}

\* Longest message list handed to the remapper.
MaxMsgs == 2

\* randomUUID(): the identifiers a call may return, given those already issued.
randomUUID(used) == NewUuids \ used

\* remap, a mutant: the cache is written but never consulted.
remapRetNoCache(m, x, fresh) ==
    IF x = Null THEN Null ELSE fresh

\* remap, a mutant: a new key reuses an identifier already handed out.
remapRetReuse(m, x, fresh) ==
    IF x = Null THEN Null
    ELSE IF x \in DOMAIN m THEN m[x]
    ELSE IF DOMAIN m # {} THEN m[CHOOSE k \in DOMAIN m : TRUE]
    ELSE fresh

\* UUIDMapper.remap: the value returned for argument x when the table is m
\* and randomUUID() would return fresh.
remapRet(m, x, fresh) ==
    IF x = Null THEN Null
    ELSE IF x \in DOMAIN m THEN m[x]
    ELSE fresh

\* UUIDMapper.remap: whether the call reaches randomUUID().
remapNeedsFresh(m, x) == x # Null /\ x \notin DOMAIN m

\* UUIDMapper.remap: the table after the call.
remapMap(m, x, fresh) ==
    IF remapNeedsFresh(m, x) THEN m @@ (x :> remapRet(m, x, fresh)) ELSE m

\* The identifier fields of a session message, as the remapper sees them.
IdMessages ==
    { [BlankObject EXCEPT !.type = IF u = "a" THEN "user" ELSE "assistant",
                          !.uuid = u, !.sessionId = sp[1], !.parentUuid = sp[2]] :
        u \in {"a", "b"},
        sp \in {<<"s", Null>>, <<"s", "a">>, <<"s", "b">>, <<"a", "b">>} }

\* All sequences over S of length at most n.
SeqUpTo(S, n) == UNION { [1..k -> S] : k \in 0..n }

\* remapMessage, a mutant: parentUuid is copied instead of remapped.
remapMessageKeepParent(m, msg, f1, f2, f3) ==
    LET m1 == remapMap(m, msg.uuid, f1)
        m2 == remapMap(m1, msg.sessionId, f2)
    IN  [msg EXCEPT !.json = "object",
                    !.uuid = remapRet(m, msg.uuid, f1),
                    !.sessionId = remapRet(m1, msg.sessionId, f2)]

\* remapMessage, a mutant: the parent of a record with a parent is remapped
\* from its sessionId.
remapMessageParentFromSession(m, msg, f1, f2, f3) ==
    LET m1 == remapMap(m, msg.uuid, f1)
    IN  [msg EXCEPT !.json = "object",
                    !.uuid = remapRet(m, msg.uuid, f1),
                    !.sessionId = remapRet(m1, msg.sessionId, f2),
                    !.parentUuid = IF @ = Null THEN Null
                                   ELSE remapRet(m1, msg.sessionId, f2)]

\* remapMessage, a mutant: the message is built from the three identifiers and
\* the type, without the spread of the other fields.
remapMessageOnlyIds(m, msg, f1, f2, f3) ==
    LET m1 == remapMap(m, msg.uuid, f1)
        m2 == remapMap(m1, msg.sessionId, f2)
    IN  [json |-> "object", type |-> msg.type,
         uuid |-> remapRet(m, msg.uuid, f1),
         sessionId |-> remapRet(m1, msg.sessionId, f2),
         parentUuid |-> remapRet(m2, msg.parentUuid, f3),
         cwd |-> << >>, snapshot |-> << >>, message |-> << >>]

\* UUIDMapper.remapMessage: the returned message.  The three remap calls run in
\* the order of the object literal: uuid, sessionId, parentUuid; f1, f2, f3
\* are what randomUUID() would return in each of them.  The result of the
\* object literal is always an object, also when msg is a scalar.
remapMessage(m, msg, f1, f2, f3) ==
    LET m1 == remapMap(m, msg.uuid, f1)
        m2 == remapMap(m1, msg.sessionId, f2)
    IN  [msg EXCEPT !.json = "object",
                    !.uuid = remapRet(m, msg.uuid, f1),
                    !.sessionId = remapRet(m1, msg.sessionId, f2),
                    !.parentUuid = remapRet(m2, msg.parentUuid, f3)]

\* UUIDMapper.remapMessage: the table after the call.
remapMessageMap(m, msg, f1, f2, f3) ==
    remapMap(remapMap(remapMap(m, msg.uuid, f1), msg.sessionId, f2),
             msg.parentUuid, f3)

\* The identifiers randomUUID() returned during one remapMessage call.
remapMessageIssued(m, msg, f1, f2, f3) ==
    LET m1 == remapMap(m, msg.uuid, f1)
        m2 == remapMap(m1, msg.sessionId, f2)
    IN  (IF remapNeedsFresh(m, msg.uuid) THEN {f1} ELSE {})
        \cup (IF remapNeedsFresh(m1, msg.sessionId) THEN {f2} ELSE {})
        \cup (IF remapNeedsFresh(m2, msg.parentUuid) THEN {f3} ELSE {})

\* new UUIDMapper(): an empty table.
EmptyMap == [k \in {} |-> Null]

\* The state of a mapper that has not been called, about to map list.
NewMapper(list) ==
    /\ map = EmptyMap
    /\ issued = {}
    /\ inputs = list
    /\ outputs = << >>
    /\ lastArg = Null
    /\ lastRet = Null
    /\ firstRet = EmptyMap
    /\ repeat = FALSE

\* A call mapper.remap(x).
Remap(x) ==
    /\ \/ ~remapNeedsFresh(map, x)
       \/ randomUUID(issued) # {}
    /\ \E fresh \in (IF remapNeedsFresh(map, x) THEN randomUUID(issued) ELSE {Null}) :
          /\ lastArg' = x
          /\ lastRet' = remapRet(map, x, fresh)
          /\ map' = remapMap(map, x, fresh)
          /\ issued' = IF remapNeedsFresh(map, x) THEN issued \cup {fresh} ELSE issued
          /\ firstRet' = IF x # Null /\ x \notin DOMAIN firstRet
                         THEN firstRet @@ (x :> remapRet(map, x, fresh))
                         ELSE firstRet
          /\ repeat' = (x \in DOMAIN firstRet)
    /\ UNCHANGED <<inputs, outputs>>

\* The message handed to remapMessage as the caller finds it after the call:
\* the result is a new object literal, the argument is only read.
messageAfterRemap(msg, result) == msg

\* One iteration of messages.map((msg) => mapper.remapMessage(msg)).
RemapMessage ==
    /\ Len(outputs) < Len(inputs)
    /\ LET msg == inputs[Len(outputs) + 1]
           pick(m, x, used) == IF remapNeedsFresh(m, x) THEN randomUUID(used) ELSE {Null}
       IN  \E f1 \in pick(map, msg.uuid, issued) :
           LET m1 == remapMap(map, msg.uuid, f1)
               u1 == issued \cup (IF remapNeedsFresh(map, msg.uuid) THEN {f1} ELSE {})
           IN  \E f2 \in pick(m1, msg.sessionId, u1) :
               LET m2 == remapMap(m1, msg.sessionId, f2)
                   u2 == u1 \cup (IF remapNeedsFresh(m1, msg.sessionId) THEN {f2} ELSE {})
               IN  \E f3 \in pick(m2, msg.parentUuid, u2) :
                     /\ outputs' = Append(outputs, remapMessage(map, msg, f1, f2, f3))
                     /\ argAfter' = <<messageAfterRemap(msg,
                                          remapMessage(map, msg, f1, f2, f3))>>
                     /\ map' = remapMessageMap(map, msg, f1, f2, f3)
                     /\ issued' = issued \cup remapMessageIssued(map, msg, f1, f2, f3)
                     /\ lastArg' = msg.parentUuid
                     /\ lastRet' = remapRet(m2, msg.parentUuid, f3)
                     /\ firstRet' =
                          LET h1 == IF msg.uuid \notin DOMAIN firstRet
                                    THEN firstRet @@ (msg.uuid :> remapRet(map, msg.uuid, f1))
                                    ELSE firstRet
                              h2 == IF msg.sessionId \notin DOMAIN h1
                                    THEN h1 @@ (msg.sessionId :> remapRet(m1, msg.sessionId, f2))
                                    ELSE h1
                          IN  IF msg.parentUuid # Null /\ msg.parentUuid \notin DOMAIN h2
                              THEN h2 @@ (msg.parentUuid :> remapRet(m2, msg.parentUuid, f3))
                              ELSE h2
                     /\ repeat' = (msg.parentUuid \in DOMAIN firstRet
                                      \cup {msg.uuid, msg.sessionId})
    /\ UNCHANGED inputs

(***************************************************************************)
(* The decoders: parseSessionFile (session/reader) and Step 4 of           *)
(* importSession                                                           *)
(***************************************************************************)

\* Longest source, in lines.
MaxLines == 3

\* A line of the source.  kind is "blank" (empty or whitespace only),
\* "badjson" (JSON.parse throws on it) or "json" (it parses, to val).
BlankLine == [kind |-> "blank", val |-> BlankObject]
BadJsonLine == [kind |-> "badjson", val |-> BlankObject]
NullLine == [kind |-> "json", val |-> [BlankObject EXCEPT !.json = "null"]]
ScalarLine == [kind |-> "json", val |-> [BlankObject EXCEPT !.json = "scalar"]]
ObjectLine(t, u, s, p) ==
    [kind |-> "json",
     val |-> [BlankObject EXCEPT !.type = t, !.uuid = u, !.sessionId = s,
                                 !.parentUuid = p]]

\* The lines the modelled sources are made of.
SampleLines ==
    { BlankLine, BadJsonLine, NullLine, ScalarLine,
      ObjectLine("user", "a", "s", Null),
      ObjectLine("assistant", "b", "s", "a"),
      ObjectLine("user", Undefined, "s", Null),
      ObjectLine(Undefined, "b", "s", "a"),
      ObjectLine("summary", "b", "s", "a"),
      ObjectLine("assistant", "b", "a", "a") }

\* hasRequiredFields, a mutant: the uuid check is missing.
hasRequiredFieldsNoUuid(v) ==
    /\ v.json = "object"
    /\ IsString(v.type)
    /\ IsString(v.sessionId)

\* hasRequiredFields(obj): an object with string type, uuid and sessionId.
hasRequiredFields(v) ==
    /\ v.json = "object"
    /\ IsString(v.type)
    /\ IsString(v.uuid)
    /\ IsString(v.sessionId)

\* readSessionLines: the trimmed non-empty lines, in order.
readSessionLines(ls) == SelectSeq(ls, LAMBDA l : l.kind # "blank")

RECURSIVE parseLoop(_, _, _)
\* The for-await loop of parseSessionFile over the lines still to read.
parseLoop(ls, msgs, warns) ==
    IF ls = << >> THEN [messages |-> msgs, warnings |-> warns]
    ELSE LET l == Head(ls)
         IN  IF l.kind = "badjson" THEN parseLoop(Tail(ls), msgs, warns + 1)
             ELSE IF ~hasRequiredFields(l.val) THEN parseLoop(Tail(ls), msgs, warns + 1)
             ELSE parseLoop(Tail(ls), Append(msgs, l.val), warns)

\* parseSessionFile(filePath) on a readable file holding the lines ls.
parseSessionFile(ls) == parseLoop(readSessionLines(ls), << >>, 0)

RECURSIVE importParseLoop(_, _, _)
\* Step 4 of importSession: JSON.parse each line, count the failures.
importParseLoop(ls, msgs, errs) ==
    IF ls = << >> THEN [messages |-> msgs, parseErrors |-> errs]
    ELSE LET l == Head(ls)
         IN  IF l.kind = "badjson" THEN importParseLoop(Tail(ls), msgs, errs + 1)
             ELSE importParseLoop(Tail(ls), Append(msgs, l.val), errs)

\* Step 4 of importSession on the gist file content made of the lines ls:
\* jsonlContent.split('\n').filter((line) => line.trim()), then the loop.
importParse(ls) ==
    importParseLoop(SelectSeq(ls, LAMBDA l : l.kind # "blank"), << >>, 0)

FileError == "ENOENT: no such file or directory"

\* parseSessionFile, a mutant: the catch block returns the messages decoded
\* before the stream failed.
parseSessionFileOnPartial(ls, canRead, delivered) ==
    Returned(parseSessionFile(SubSeq(ls, 1, delivered)).messages)

\* parseSessionFile(filePath) on a file holding the lines ls, whose stream
\* delivers them all (canRead) or fails after the first `delivered` ones:
\* the catch block rethrows the file error, and the messages decoded so far
\* are lost with the call.
parseSessionFileOn(ls, canRead, delivered) ==
    IF canRead THEN Returned(parseSessionFile(ls).messages)
    ELSE Threw(FileError)

\* What fetching the gist and looking for its .jsonl file can end in.
FetchOutcomes == {"ok", "GistError", "NoJsonlFile"}

\* What mkdir and writeFile can end in: success or an error code.
IoOutcomes == {"ok", "EACCES", "ENOSPC", "EIO"}

\* writeSessionToLocal's catch block: the SessionWriteError for an error code.
writeError(code) ==
    IF code = "EACCES" THEN "WritePermissionDenied"
    ELSE IF code = "ENOSPC" THEN "WriteDiskFull"
    ELSE "WriteFailed"

\* The state before any decoder has run on the source.
DecodeIdle ==
    /\ imFile = Undefined
    /\ rdDelivered = 0
    /\ imReport = << >>
    /\ rdStatus = "idle"
    /\ rdMessages = << >>
    /\ rdWarnings = 0
    /\ imStatus = "idle"
    /\ imMessages = << >>
    /\ imParseErrors = 0
    /\ imError = "none"
    /\ imWritten = << >>

\* parseSessionFile(filePath): the whole call.  The stream of
\* createReadStream either delivers all the lines, or fails (file not found,
\* permission denied, read error) after some of them; console.warn has
\* reported the lines skipped up to there.
ParseSessionFile ==
    /\ rdStatus = "idle"
    /\ imStatus = "idle"
    /\ \E canRead \in BOOLEAN, delivered \in 0..Len(lines) :
         /\ canRead => delivered = Len(lines)
         /\ readable' = canRead
         /\ rdDelivered' = delivered
         /\ rdWarnings' = parseSessionFile(SubSeq(lines, 1, delivered)).warnings
         /\ \E r \in {parseSessionFileOn(lines, canRead, delivered)} :
              /\ rdStatus' = (IF r.threw THEN "threw" ELSE "returned")
              /\ rdMessages' = r.value
    /\ UNCHANGED <<mapperVars, lines, importVars, sanitizeVars, redactVars,
                 pathVars, imReport, exportVars, writerVars, argAfter, passes, imFile>>

\* importSession, Steps 1 to 4 and new UUIDMapper(): fetch the gist, find the
\* JSONL file, decode it, refuse an empty result.
ImportFetchParse ==
    /\ imStatus = "idle"
    /\ rdStatus = "idle"
    /\ \E outcome \in FetchOutcomes :
         IF outcome # "ok"
         THEN /\ imStatus' = "failed"
              /\ imError' = outcome
              /\ UNCHANGED <<imMessages, imParseErrors, mapperVars>>
         ELSE IF lines = << >>
         THEN /\ imStatus' = "failed"
              /\ imError' = "NoContent"
              /\ UNCHANGED <<imMessages, imParseErrors, mapperVars>>
         ELSE /\ imMessages' = importParse(lines).messages
              /\ imParseErrors' = importParse(lines).parseErrors
              /\ IF importParse(lines).messages = << >>
                 THEN /\ imStatus' = "failed"
                      /\ imError' = "NoValidMessages"
                      /\ UNCHANGED mapperVars
                 ELSE /\ imStatus' = "remapping"
                      /\ imError' = "none"
                      /\ inputs' = importParse(lines).messages
                      /\ UNCHANGED <<map, issued, outputs, lastArg, lastRet,
                                     firstRet, repeat>>
    /\ UNCHANGED <<lines, readable, readerVars, imWritten, sanitizeVars, redactVars,
                 pathVars, rdDelivered, imReport, exportVars, writerVars, argAfter, passes, imFile>>

\* importSession, Step 5: one iteration of messages.map(mapper.remapMessage).
\* Reading message.uuid of the value null throws a TypeError.
ImportRemap ==
    /\ imStatus = "remapping"
    /\ Len(outputs) < Len(inputs)
    /\ IF inputs[Len(outputs) + 1].json = "null"
       THEN /\ imStatus' = "failed"
            /\ imError' = "TypeError"
            /\ UNCHANGED <<mapperVars, imMessages, imParseErrors, argAfter>>
       ELSE /\ RemapMessage
            /\ UNCHANGED <<imStatus, imError, imMessages, imParseErrors>>
    /\ UNCHANGED <<lines, readable, readerVars, imWritten, sanitizeVars, redactVars,
                 pathVars, rdDelivered, imReport, exportVars, writerVars, passes, imFile>>

\* writeSessionToLocal, Steps 2 and 3: the name of the session file, without
\* its extension, is the sessionId of the first message.
sessionFileName(messages) == messages[1].sessionId

\* importSession, Step 6 and 7: writeSessionToLocal(remappedMessages, ...).
ImportWrite ==
    /\ imStatus = "remapping"
    /\ Len(outputs) = Len(inputs)
    /\ \E io \in IoOutcomes :
         IF io = "ok"
         THEN /\ imStatus' = "done"
              /\ imWritten' = outputs
              /\ imFile' = sessionFileName(outputs)
              /\ UNCHANGED imError
         ELSE /\ imStatus' = "failed"
              /\ imError' = writeError(io)
              /\ UNCHANGED <<imWritten, imFile>>
    /\ UNCHANGED <<mapperVars, lines, readable, readerVars, imMessages, imParseErrors,
                 sanitizeVars, redactVars, pathVars, rdDelivered, imReport, exportVars,
                 writerVars, argAfter, passes>>

(***************************************************************************)
(* Sanitization of a session: the message lists, base paths and working    *)
(* directories sanitizeSession is called with.                             *)
(***************************************************************************)
MaxSession == 2

ProjectPath == <<"/", "b", "a", "s", "e", "/", "p", "r", "o", "j">>

BasePaths == { << >>, ProjectPath }

ProcessCwds == { <<"/", "w">>, <<"/", "b", "a", "s", "e", "/", "p", "r", "o", "j", "/", "s", "u", "b">> }

UserSample ==
    [BlankObject EXCEPT !.type = "user", !.uuid = "a", !.sessionId = "s",
        !.parentUuid = Null, !.cwd = ProjectPath,
        !.message = << [BlankMessage EXCEPT !.text = <<"f", "i", "x", " ", "/", "b", "a", "s", "e", "/", "p", "r", "o", "j", "/", "a", ".", "t", "s">>] >>]

AssistantSample(u, p) ==
    [BlankObject EXCEPT !.type = "assistant", !.uuid = u, !.sessionId = "s",
        !.parentUuid = p]

ThinkingBlock == Block("thinking", <<"s", "e", "c", "r", "e", "t", " ", "p", "l", "a", "n">>, << >>)

\* Representation with snapshot: thinking and one entry with a path and a key.
LegacySample ==
    [AssistantSample("b", "a") EXCEPT !.snapshot =
        << [BlankSnapshot EXCEPT
              !.thinking = << <<"s", "e", "c", "r", "e", "t", " ", "p", "l", "a", "n">> >>,
              !.messages = << [role |-> "assistant",
                               content |-> <<"/", "b", "a", "s", "e", "/", "p", "r", "o", "j", "/", "s", "r", "c", "/", "a", ".", "t", "s", " ", "c", "o", "n", "t", "a", "i", "n", "s", " ", "a", "p", "i", "_", "k", "e", "y", ":", " ", "\"", "a", "b", "c", "d", "e", "f", "1", "2", "3", "4", "5", "6", "7", "8", "\"">>] >>] >>]

\* Representation with snapshot: thinking is the empty string, no entries.
LegacyEmptySample ==
    [AssistantSample("c", "b") EXCEPT !.snapshot =
        << [BlankSnapshot EXCEPT !.thinking = << << >> >>] >>]

\* Representation with message: a tool_result, a thinking, a text and a
\* tool_use block; the tool blocks hold paths under the project.
BlocksSample ==
    [AssistantSample("c", "a") EXCEPT !.message =
        << [BlankMessage EXCEPT !.content =
              << Block("tool_result", <<"/", "b", "a", "s", "e", "/", "p", "r", "o", "j", "/", "z">>, <<"/", "b", "a", "s", "e", "/", "p", "r", "o", "j", "/", "z">>),
                 ThinkingBlock,
                 Block("text", <<"s", "e", "e", " ", "/", "b", "a", "s", "e", "/", "p", "r", "o", "j", "/", "x">>, << >>),
                 Block("tool_use", << >>, <<"/", "b", "a", "s", "e", "/", "p", "r", "o", "j", "/", "y">>) >>] >> ]

\* Representation with message: nothing but a thinking block.
OnlyThinkingSample ==
    [AssistantSample("d", "c") EXCEPT !.message =
        << [BlankMessage EXCEPT !.content = << ThinkingBlock >>] >>]

\* Both fields present, as the AssistantMessage type allows.
BothSample ==
    [AssistantSample("b", Null) EXCEPT
        !.snapshot = << [BlankSnapshot EXCEPT !.thinking = << <<"p", "l", "a", "n">> >>] >>,
        !.message = << [BlankMessage EXCEPT !.content = << ThinkingBlock >>] >>]

\* Neither field present.
NeitherSample == AssistantSample("d", "a")

FilesSample ==
    [BlankObject EXCEPT !.type = "file-history-snapshot", !.uuid = "e",
        !.sessionId = "s", !.parentUuid = "b",
        !.snapshot = << [BlankSnapshot EXCEPT !.files =
              << [path |-> <<"/", "b", "a", "s", "e", "/", "p", "r", "o", "j", "/", "s", "r", "c", "/", "a", ".", "t", "s">>], [path |-> <<"/", "e", "t", "c", "/", "p", "a", "s", "s", "w", "d">>] >>] >>]

\* A record of a type outside the SessionMessage union, which
\* hasRequiredFields accepts.
SummarySample ==
    [BlankObject EXCEPT !.type = "summary", !.uuid = "f", !.sessionId = "s",
        !.parentUuid = Null]

\* A user record of a session that was sanitized before: cwd is relative.
RelativeUserSample ==
    [BlankObject EXCEPT !.type = "user", !.uuid = "a", !.sessionId = "s",
        !.parentUuid = Null, !.cwd = <<"s", "r", "c">>,
        !.message = << [BlankMessage EXCEPT !.text = <<"f", "i", "x", " ", "a", ".", "t", "s">>] >>]

\* An assistant record of a session that was sanitized before: thinking is
\* null, and the entry holds a relative path and no secret.
CleanLegacySample ==
    [AssistantSample("b", "a") EXCEPT !.snapshot =
        << [BlankSnapshot EXCEPT
              !.messages = << [role |-> "assistant",
                               content |-> <<"s", "e", "e", " ", "s", "r", "c", "/", "a", ".", "t", "s">>] >>] >>]

SampleMessages ==
    { UserSample, LegacySample, LegacyEmptySample, BlocksSample,
      OnlyThinkingSample, BothSample, NeitherSample, FilesSample, SummarySample,
      RelativeUserSample, CleanLegacySample }

SanitizeIdle ==
    /\ session = << >>
    /\ sanBase = << >>
    /\ procCwd = << >>
    /\ sanStatus = "idle"
    /\ sanOut = << >>
    /\ sanError = ""

\* The list handed to sanitizeSession as the caller finds it after the call,
\* a mutant: the sanitizers write their results into the list.
sessionAfterSanitizeInPlace(messages, result) ==
    IF result.threw THEN messages ELSE result.value

\* The list handed to sanitizeSession as the caller finds it after the call:
\* the sanitizers build their results with object spread, map and filter,
\* and assign to no field of their arguments.
sessionAfterSanitize(messages, result) == messages

\* A call sanitizeSession(session, sanBase); session is the list as it was
\* when the call was made.
SanitizeSession ==
    /\ sanStatus = "idle"
    /\ \E r \in {sanitizeSession(session, sanBase, procCwd)} :
           /\ sanStatus' = (IF r.threw THEN "threw" ELSE "returned")
           /\ sanOut' = r.value
           /\ sanError' = r.error
           /\ argAfter' = sessionAfterSanitize(session, r)
    /\ UNCHANGED <<session, sanBase, procCwd>>

(***************************************************************************)
(* Redaction of a text: a credential-shaped literal of one of the six      *)
(* families, alone or with text before and after it.                      *)
(***************************************************************************)
Secret(f, lit) == [family |-> f, literal |-> lit]

NoSecret == Secret(0, << >>)

SeededSecrets ==
    { Secret(1, <<"\"", "a", "p", "i", "_", "k", "e", "y", "\"", ":", " ", "\"", "s", "k", "-", "1", "2", "3", "4", "5", "6", "7", "8", "9", "0", "a", "b", "c", "d", "e", "f", "\"">>),
      Secret(1, <<"a", "p", "i", "K", "e", "y", ":", " ", "'", "a", "b", "c", "1", "2", "3", "d", "e", "f", "4", "5", "6", "x", "y", "z", "7", "8", "9", "'">>),
      Secret(2, <<"A", "P", "I", "_", "K", "E", "Y", "=", "a", "b", "c", "1", "2", "3", "d", "e", "f", "4", "5", "6">>),
      Secret(2, <<"S", "E", "C", "R", "E", "T", "_", "T", "O", "K", "E", "N", "=", "x", "y", "z", "7", "8", "9", "a", "b", "c", "1", "2", "3">>),
      Secret(2, <<"P", "A", "S", "S", "W", "O", "R", "D", "=", "h", "u", "n", "t", "e", "r", "2", "h", "u", "n", "t", "e", "r", "2">>),
      Secret(3, <<"g", "h", "p", "_", "1", "2", "3", "4", "5", "6", "7", "8", "9", "0", "a", "b", "c", "d", "e", "f", "g", "h", "i", "j", "k", "l", "m", "n", "o", "p", "q", "r", "s", "t", "u", "v", "w", "x", "y", "z">>),
      Secret(3, <<"g", "i", "t", "h", "u", "b", "_", "p", "a", "t", "_", "1", "2", "3", "4", "5", "6", "7", "8", "9", "0", "a", "b", "c", "d", "e", "f", "g", "h", "i", "j", "k", "l", "m", "n", "o", "p", "q", "r", "s", "t", "u", "v", "w", "x", "y", "z">>),
      Secret(4, <<"A", "K", "I", "A", "I", "O", "S", "F", "O", "D", "N", "N", "7", "E", "X", "A", "M", "P", "L", "E">>),
      Secret(4, <<"a", "w", "s", "_", "s", "e", "c", "r", "e", "t", "_", "a", "c", "c", "e", "s", "s", "_", "k", "e", "y", ":", " ", "w", "J", "a", "l", "r", "X", "U", "t", "n", "F", "E", "M", "I", "/", "K", "7", "M", "D", "E", "N", "G", "/", "b", "P", "x", "R", "f", "i", "C", "Y", "E", "X", "A", "M", "P", "L", "E", "K", "E", "Y">>),
      Secret(5, <<"=", "S", "G", "V", "s", "b", "G", "9", "X", "b", "3", "J", "s", "Z", "F", "R", "o", "a", "X", "N", "J", "c", "0", "F", "M", "b", "2", "5", "n", "Q", "m", "F", "z", "Z", "T", "Y", "0", "U", "3", "R", "y", "a", "W", "5", "n">>),
      Secret(6, <<"-", "-", "-", "-", "-", "B", "E", "G", "I", "N", " ", "R", "S", "A", " ", "P", "R", "I", "V", "A", "T", "E", " ", "K", "E", "Y", "-", "-", "-", "-", "-", "\n", "M", "I", "I", "E", "p", "A", "I", "B", "A", "A", "K", "C", "A", "Q", "E", "A", "\n", "-", "-", "-", "-", "-", "E", "N", "D", " ", "R", "S", "A", " ", "P", "R", "I", "V", "A", "T", "E", " ", "K", "E", "Y", "-", "-", "-", "-", "-">>) }

TextsBefore == { << >>, <<"e", "x", "p", "o", "r", "t", " ">>, <<"x">> }

TextsAfter == { << >>, <<"\n">>, <<"z">> }

\* Literals that are no credentials: UUIDs, runs of fewer than 32
\* hexadecimal digits, colour codes.  Families 7, 8 and 9.
BenignLiterals ==
    { Secret(7, <<"5", "5", "0", "e", "8", "4", "0", "0", "-", "e", "2", "9", "b", "-", "4", "1", "d", "4", "-", "a", "7", "1", "6", "-", "4", "4", "6", "6", "5", "5", "4", "4", "0", "0", "0", "0">>),
      Secret(7, <<"6", "b", "a", "7", "b", "8", "1", "0", "-", "9", "d", "a", "d", "-", "1", "1", "d", "1", "-", "8", "0", "b", "4", "-", "0", "0", "c", "0", "4", "f", "d", "4", "3", "0", "c", "8">>),
      Secret(8, <<"a", "b", "c", "1", "2", "3", "d", "e", "f">>),
      Secret(8, <<"0", "1", "2", "3", "4", "5", "6", "7", "8", "9", "a", "b", "c", "d", "e", "f", "0", "1", "2", "3", "4", "5", "6", "7", "8", "9", "a", "b", "c", "d", "e">>),
      Secret(9, <<"#", "f", "f", "5", "7", "3", "3">>),
      Secret(9, <<"#", "f", "f", "f">>) }

\* What stands in front of the literal in the text: nothing, a plain label,
\* the names of the configuration entries of a session, a name that
\* announces a credential.
BenignBefore ==
    { << >>, <<"i", "d", ":", " ">>, <<"S", "E", "S", "S", "I", "O", "N", "_", "I", "D", "=">>, <<"C", "O", "L", "O", "R", "=">>, <<"A", "U", "T", "H", "_", "T", "O", "K", "E", "N", "=">> }

\* What follows the literal: nothing, a line break, another word.
BenignAfter == { << >>, <<"\n">>, <<" ", "z">> }

RedactIdle ==
    /\ secret = NoSecret
    /\ redText = << >>
    /\ redacted = << >>
    /\ redStatus = "idle"

\* A call redactSecrets(redText).
Redact ==
    /\ redStatus = "idle"
    /\ redacted' = redactSecrets(redText)
    /\ redStatus' = "done"
    /\ UNCHANGED <<secret, redText>>

(***************************************************************************)
(* Calls of sanitizePath: once on a path, then on its own result.          *)
(***************************************************************************)
SamplePaths ==
    { <<"/", "b", "a", "s", "e", "/", "p", "r", "o", "j">>, <<"/", "b", "a", "s", "e", "/", "p", "r", "o", "j", "/", "s", "r", "c", "/", "a", ".", "t", "s">>, <<"/", "b", "a", "s", "e", "/", "p", "r", "o", "j", "/", ".", ".", "/", "o", "t", "h", "e", "r", "/", "b">>,
      <<"/", "b", "a", "s", "e", "/", "p", "r", "o", "j", "e", "c", "t", "/", "x">>, <<"/", "e", "t", "c", "/", "p", "a", "s", "s", "w", "d">>, <<"s", "r", "c", "/", "a", ".", "t", "s">>, <<".">>,
      <<".", ".", "/", "u", "p">>, << >> }

PathBases == { << >>, ProjectPath, <<"/", "b", "a", "s", "e", "/", "p", "r", "o", "j", "/">>, <<"p", "r", "o", "j">> }

PathIdle ==
    /\ pathArg = << >>
    /\ pathBase = << >>
    /\ pathOut = << >>
    /\ pathAgain = << >>
    /\ pathStatus = "idle"

\* A call sanitizePath(pathArg, pathBase).
SanitizePath ==
    /\ pathStatus = "idle"
    /\ pathOut' = sanitizePath(pathArg, pathBase, procCwd)
    /\ pathStatus' = "once"
    /\ UNCHANGED <<pathArg, pathBase, pathAgain>>

\* A call sanitizePath(pathOut, pathBase) on the result of the first call.
SanitizePathAgain ==
    /\ pathStatus = "once"
    /\ pathAgain' = sanitizePath(pathOut, pathBase, procCwd)
    /\ pathStatus' = "twice"
    /\ UNCHANGED <<pathArg, pathBase, pathOut>>

(***************************************************************************)
(* Export: uploadSession (services/session-uploader) and the share_session *)
(* handler.  An error message is the list of its parts: the contexts put   *)
(* in front of it, outermost first, and the message of the first error.    *)
(***************************************************************************)

\* JSON.stringify(msg): one line of text, which JSON.parse reads as msg.
stringify(msg) == [kind |-> "json", val |-> msg]

\* The line separator '\n' in the content of a file.
Newline == [kind |-> "newline", val |-> BlankObject]

RECURSIVE join(_, _)
\* parts.join(sep)
join(parts, sep) ==
    IF parts = << >> THEN << >>
    ELSE IF Len(parts) = 1 THEN parts
    ELSE <<Head(parts), sep>> \o join(Tail(parts), sep)

\* A user record without cwd.
NoCwdUserSample ==
    [BlankObject EXCEPT !.type = "user", !.uuid = "g", !.sessionId = "s",
        !.parentUuid = Null,
        !.message = << [BlankMessage EXCEPT !.text = <<"h", "e", "l", "l", "o">>] >>]

\* A user record of a later turn, made in another directory.
OtherUserSample ==
    [BlankObject EXCEPT !.type = "user", !.uuid = "h", !.sessionId = "s",
        !.parentUuid = "g", !.cwd = <<"/", "o", "t", "h", "e", "r">>,
        !.message = << [BlankMessage EXCEPT !.text = <<"n", "e", "x", "t">>] >>]

\* A record of a type outside the SessionMessage union that carries the
\* project directory, as the system records of a session file do.
SystemSample ==
    [BlankObject EXCEPT !.type = "system", !.uuid = "f", !.sessionId = "s",
        !.parentUuid = "a", !.cwd = ProjectPath]

\* The lines the session files handed to uploadSession are made of.
ExportLines ==
    { BlankLine, BadJsonLine, stringify(UserSample), stringify(NoCwdUserSample),
      stringify(OtherUserSample), stringify(LegacySample),
      stringify(NeitherSample), stringify(SystemSample) }

EmptyOrNoValid == "Session file is empty or contains no valid messages"
UploadContext == "Failed to upload session: "
ShareContext == "Failed to share session: "
CreateGistContext == "Failed to create gist: "
ApiError == "Server Error"
ShareSuccess == "Successfully shared session!"

MetadataError == "Failed to extract session metadata"
TokenError == "GITHUB_TOKEN environment variable is required."

\* What new GistClient() and gistClient.createGist(...) can end in: the
\* constructor throws without a token, createGist returns or throws.
CreateOutcomes == {"ok", "GistApiError", "GistAuthError"}

\* extractMetadata(messages): null for no message, the metadata otherwise, of
\* which the session identifier is the one of the first message.
extractMetadata(messages) ==
    IF messages = << >> THEN Null ELSE messages[1].sessionId

\* The catch block of uploadSession: the error with context in front.
uploadCatch(message) == <<UploadContext>> \o message

\* The catch block of the share_session handler.
shareCatch(message) == <<ShareContext>> \o message

\* uploadSession, the check after Step 1: no message is an error.
checkMessages(messages) ==
    IF messages = << >> THEN Threw(EmptyOrNoValid) ELSE Returned(messages)

\* The state before uploadSession is called.
ExportIdle ==
    /\ upStatus = "idle"
    /\ upMessages = << >>
    /\ upBase = << >>
    /\ upSanitized = << >>
    /\ upJsonl = << >>
    /\ upError = << >>
    /\ shareReport = << >>
    /\ gistFiles = << >>

\* uploadSession, Step 1: await parseSessionFile(sessionPath) returns the
\* messages or throws the file error.
UploadRead ==
    /\ upStatus = "idle"
    /\ \E canRead \in BOOLEAN, delivered \in 0..Len(lines) :
         /\ canRead => delivered = Len(lines)
         /\ readable' = canRead
         /\ \E r \in {parseSessionFileOn(lines, canRead, delivered)} :
              IF r.threw
              THEN /\ upStatus' = "failed"
                   /\ upError' = uploadCatch(<<r.error>>)
                   /\ UNCHANGED upMessages
              ELSE /\ upStatus' = "read"
                   /\ upMessages' = r.value
                   /\ UNCHANGED upError
    /\ UNCHANGED <<upBase, upSanitized, upJsonl, shareReport, gistFiles>>

\* uploadSession, the check of the message count and Steps 2 to 4:
\* inferBasePath, sanitizeSession, the JSONL string.  extractMetadata returns
\* null for no message only, which the check has ruled out.
UploadSanitize ==
    /\ upStatus = "read"
    /\ IF checkMessages(upMessages).threw
       THEN /\ upStatus' = "failed"
            /\ upError' = uploadCatch(<<checkMessages(upMessages).error>>)
            /\ UNCHANGED <<upBase, upSanitized, upJsonl>>
       ELSE /\ upBase' = inferBasePath(upMessages)
            /\ \E r \in {sanitizeSession(upMessages, inferBasePath(upMessages), procCwd)} :
                 IF r.threw
                 THEN /\ upStatus' = "failed"
                      /\ upError' = uploadCatch(<<r.error>>)
                      /\ UNCHANGED <<upSanitized, upJsonl>>
                 ELSE IF extractMetadata(r.value) = Null
                 THEN /\ upStatus' = "failed"
                      /\ upError' = uploadCatch(<<MetadataError>>)
                      /\ UNCHANGED <<upSanitized, upJsonl>>
                 ELSE /\ upStatus' = "uploading"
                      /\ upSanitized' = r.value
                      /\ upJsonl' = join([i \in 1..Len(r.value) |-> stringify(r.value[i])],
                                         Newline)
                      /\ UNCHANGED upError
    /\ UNCHANGED <<readable, upMessages, shareReport, gistFiles>>

\* uploadSession, Step 5: new GistClient() and await createGist(...).
UploadCreateGist ==
    /\ upStatus = "uploading"
    /\ \E outcome \in CreateOutcomes :
         IF outcome = "GistAuthError"
         THEN /\ upStatus' = "failed"
              /\ upError' = uploadCatch(<<TokenError>>)
              /\ UNCHANGED gistFiles
         ELSE /\ gistFiles' = << [name |-> "session.jsonl", content |-> upJsonl] >>
              /\ IF outcome = "ok"
                 THEN /\ upStatus' = "done"
                      /\ UNCHANGED upError
                 ELSE /\ upStatus' = "failed"
                      /\ upError' = uploadCatch(<<CreateGistContext, ApiError>>)
    /\ UNCHANGED <<readable, upMessages, upBase, upSanitized, upJsonl, shareReport>>

\* The share_session handler once uploadSession has returned or thrown.
ShareSession ==
    /\ upStatus \in {"done", "failed"}
    /\ shareReport = << >>
    /\ shareReport' = (IF upStatus = "failed" THEN shareCatch(upError)
                       ELSE <<ShareSuccess>>)
    /\ UNCHANGED <<readable, upStatus, upMessages, upBase, upSanitized, upJsonl, upError,
                   gistFiles>>

(***************************************************************************)
(* The writer: writeSessionToLocal (session/writer)                        *)
(***************************************************************************)

WriteEmptyError == "Cannot write empty session: no messages provided"
WriteContext == "Failed to write session: "
PermissionDenied == "Permission denied: Cannot write to session directory. Check permissions for ~/.claude/projects/"
DiskFull == "Disk full: Not enough space to write session file"

\* The catch block of writeSessionToLocal, a mutant: ENOSPC is not told from
\* the other errors.
writeErrorMessageNoDiskFull(code, message) ==
    IF code = "EACCES" THEN <<PermissionDenied>>
    ELSE <<WriteContext>> \o message

\* The catch block of writeSessionToLocal: the message of the
\* SessionWriteError thrown for a caught error with this code and message.
writeErrorMessage(code, message) ==
    IF code = "EACCES" THEN <<PermissionDenied>>
    ELSE IF code = "ENOSPC" THEN <<DiskFull>>
    ELSE <<WriteContext>> \o message

\* Step 5 of writeSessionToLocal, a mutant: no newline after the last line.
jsonlContentNoTrailingNewline(messages) ==
    join([i \in 1..Len(messages) |-> stringify(messages[i])], Newline)

\* Step 5 of writeSessionToLocal:
\* messages.map((msg) => JSON.stringify(msg)).join('\n') + '\n'
jsonlContent(messages) ==
    join([i \in 1..Len(messages) |-> stringify(messages[i])], Newline)
        \o <<Newline>>

\* The state before writeSessionToLocal is called.
WriterIdle ==
    /\ wrMessages = << >>
    /\ wrStatus = "idle"
    /\ wrIo = "ok"
    /\ wrFile = << >>
    /\ wrResult = << >>
    /\ wrError = << >>

\* writeSessionToLocal, Steps 1 to 4: refuse an empty list, take the session
\* identifier of the first message, await mkdir.  The error thrown for an
\* empty list has no code and is caught by the function's own catch block.
WriterMkdir ==
    /\ wrStatus = "idle"
    /\ IF wrMessages = << >>
       THEN /\ wrStatus' = "threw"
            /\ wrError' = writeErrorMessage(Undefined, <<WriteEmptyError>>)
            /\ UNCHANGED wrIo
       ELSE \E io \in IoOutcomes :
              IF io = "ok"
              THEN /\ wrStatus' = "writing"
                   /\ UNCHANGED <<wrIo, wrError>>
              ELSE /\ wrStatus' = "threw"
                   /\ wrIo' = io
                   /\ wrError' = writeErrorMessage(io, <<io>>)
    /\ UNCHANGED <<wrMessages, wrFile, wrResult>>

\* writeSessionToLocal, Steps 5 to 7: build the content, await writeFile,
\* return the file path and the session identifier.
WriterWriteFile ==
    /\ wrStatus = "writing"
    /\ \E io \in IoOutcomes :
         IF io = "ok"
         THEN /\ wrStatus' = "returned"
              /\ wrFile' = jsonlContent(wrMessages)
              /\ wrResult' = << [sessionId |-> sessionFileName(wrMessages)] >>
              /\ UNCHANGED <<wrIo, wrError>>
         ELSE /\ wrStatus' = "threw"
              /\ wrIo' = io
              /\ wrError' = writeErrorMessage(io, <<io>>)
              /\ UNCHANGED <<wrFile, wrResult>>
    /\ UNCHANGED wrMessages

ImportContext == "Failed to import session: "
ImportFailedContext == "Import failed: "
FetchGistContext == "Failed to fetch gist: "
NoJsonlFileError == "No JSONL file found in gist. Expected a .jsonl file containing session messages."
NoContentError == "JSONL file has no content. The gist may be malformed."
NoValidMessagesError == "No valid messages found in JSONL file. Parse errors: N"
NullMessageError == "Cannot read properties of null (reading 'uuid')"
ImportSuccess == "Session imported successfully!"

\* The message of the error the try block of importSession ends with, for
\* each kind of failure.
importErrorMessage(kind) ==
    CASE kind = "GistError" -> <<FetchGistContext, ApiError>>
      [] kind = "NoJsonlFile" -> <<NoJsonlFileError>>
      [] kind = "NoContent" -> <<NoContentError>>
      [] kind = "NoValidMessages" -> <<NoValidMessagesError>>
      [] kind = "TypeError" -> <<NullMessageError>>
      [] kind = "WritePermissionDenied" -> writeErrorMessage("EACCES", <<"EACCES">>)
      [] kind = "WriteDiskFull" -> writeErrorMessage("ENOSPC", <<"ENOSPC">>)
      [] kind = "WriteFailed" -> writeErrorMessage("EIO", <<"EIO">>)

\* The catch block of importSession: the error with context in front.
importCatch(message) == <<ImportContext>> \o message

\* The catch block of the import_session handler.
importHandlerCatch(message) == <<ImportFailedContext>> \o message

\* The import_session handler once importSession has returned or thrown.
ImportSession ==
    /\ imStatus \in {"done", "failed"}
    /\ imReport = << >>
    /\ imReport' = (IF imStatus = "failed"
                    THEN importHandlerCatch(importCatch(importErrorMessage(imError)))
                    ELSE <<ImportSuccess>>)
    /\ UNCHANGED <<mapperVars, lines, readable, readerVars, importVars,
                   sanitizeVars, redactVars, pathVars, rdDelivered, exportVars,
                   writerVars, argAfter, passes, imFile>>

\* Messages with content handed to the remapper, some of them as a sanitize
\* pass leaves them; their identifiers are among OrigIds.
ContentMessages ==
    { UserSample, LegacySample, BothSample, RelativeUserSample, CleanLegacySample }

(***************************************************************************)
(* Several importSession calls in one process                              *)
(***************************************************************************)

\* The import passes that run side by side.
PassIds == {1, 2}

\* The values randomUUID() can return while the passes run.
PassUuids == NewUuids \cup {"n5", "n6"}

\* The records of the gists the passes import: a root record and its answer.
PassMessages ==
    { [BlankObject EXCEPT !.type = "user", !.uuid = "a", !.sessionId = "s",
                          !.parentUuid = Null],
      [BlankObject EXCEPT !.type = "assistant", !.uuid = "b", !.sessionId = "s",
                          !.parentUuid = "a"] }

\* The mapper a pass uses, a mutant: one mapper of module scope, the one the
\* first pass created.
mapperOfShared(p) == 1

\* The mapper a pass uses: const mapper = new UUIDMapper() is a local of the
\* importSession call, so each pass has the one it created.
mapperOf(p) == p

\* Step 5 of importSession in pass p: one iteration of
\* messages.map((msg) => mapper.remapMessage(msg)).  The passes are taken
\* apart record by record, which covers every order the event loop can run
\* them in.
PassRemap(p) ==
    /\ Len(passes[p].outputs) < Len(passes[p].inputs)
    /\ LET k == mapperOf(p)
           table == passes[k].map
           msg == passes[p].inputs[Len(passes[p].outputs) + 1]
           pick(m, x, used) == IF remapNeedsFresh(m, x) THEN PassUuids \ used ELSE {Null}
       IN  \E f1 \in pick(table, msg.uuid, issued) :
           LET m1 == remapMap(table, msg.uuid, f1)
               u1 == issued \cup (IF remapNeedsFresh(table, msg.uuid) THEN {f1} ELSE {})
           IN  \E f2 \in pick(m1, msg.sessionId, u1) :
               LET m2 == remapMap(m1, msg.sessionId, f2)
                   u2 == u1 \cup (IF remapNeedsFresh(m1, msg.sessionId) THEN {f2} ELSE {})
               IN  \E f3 \in pick(m2, msg.parentUuid, u2) :
                     /\ passes' =
                          LET written == [passes EXCEPT ![p].outputs =
                                  Append(@, remapMessage(table, msg, f1, f2, f3))]
                          IN  [written EXCEPT ![k].map =
                                  remapMessageMap(table, msg, f1, f2, f3)]
                     /\ issued' = issued \cup remapMessageIssued(table, msg, f1, f2, f3)
    /\ UNCHANGED <<map, inputs, outputs, lastArg, lastRet, firstRet, repeat>>

\* Two importSession calls, each past its decode step with its own records
\* and a mapper it has just created.
PassInit ==
    /\ passes \in [PassIds -> { [inputs |-> list, outputs |-> << >>, map |-> EmptyMap] :
                                   list \in SeqUpTo(PassMessages, MaxMsgs) }]
    /\ NewMapper(<< >>)
    /\ lines = << >>
    /\ readable = TRUE
    /\ argAfter = << >>
    /\ DecodeIdle
    /\ SanitizeIdle
    /\ RedactIdle
    /\ PathIdle
    /\ ExportIdle
    /\ WriterIdle

PassNext ==
    \E p \in PassIds :
        /\ PassRemap(p)
        /\ UNCHANGED <<lines, readable, readerVars, importVars, sanitizeVars, redactVars,
                       pathVars, rdDelivered, imReport, exportVars, writerVars, argAfter,
                       imFile>>

SpecPasses == PassInit /\ [][PassNext]_vars

MapperInit ==
    /\ \E list \in SeqUpTo(IdMessages, MaxMsgs) : NewMapper(list)
    /\ lines = << >>
    /\ readable = TRUE
    /\ argAfter = << >>
    /\ passes = << >>
    /\ DecodeIdle
    /\ SanitizeIdle
    /\ RedactIdle
    /\ PathIdle
    /\ ExportIdle
    /\ WriterIdle

MapperNext ==
    \/ /\ \E x \in OrigIds \cup {Null} : Remap(x)
       /\ UNCHANGED <<lines, readable, readerVars, importVars, sanitizeVars, redactVars,
                 pathVars, rdDelivered, imReport, exportVars, writerVars, argAfter, passes, imFile>>
    \/ /\ RemapMessage
       /\ UNCHANGED <<lines, readable, readerVars, importVars, sanitizeVars, redactVars,
                 pathVars, rdDelivered, imReport, exportVars, writerVars, passes, imFile>>

SpecMapper == MapperInit /\ [][MapperNext]_vars

ContentInit ==
    /\ \E list \in SeqUpTo(ContentMessages, MaxMsgs) : NewMapper(list)
    /\ lines = << >>
    /\ readable = TRUE
    /\ argAfter = << >>
    /\ passes = << >>
    /\ DecodeIdle
    /\ SanitizeIdle
    /\ RedactIdle
    /\ PathIdle
    /\ ExportIdle
    /\ WriterIdle

ContentNext ==
    /\ RemapMessage
    /\ UNCHANGED <<lines, readable, readerVars, importVars, sanitizeVars, redactVars,
                   pathVars, rdDelivered, imReport, exportVars, writerVars, passes, imFile>>

SpecContent == ContentInit /\ [][ContentNext]_vars

DecodeInit ==
    /\ lines \in SeqUpTo(SampleLines, MaxLines)
    /\ readable = TRUE
    /\ argAfter = << >>
    /\ passes = << >>
    /\ DecodeIdle
    /\ NewMapper(<< >>)
    /\ SanitizeIdle
    /\ RedactIdle
    /\ PathIdle
    /\ ExportIdle
    /\ WriterIdle

DecodeNext ==
    \/ ParseSessionFile
    \/ ImportFetchParse
    \/ ImportRemap
    \/ ImportWrite
    \/ ImportSession

SpecDecode == DecodeInit /\ [][DecodeNext]_vars

\* Both families of operations applied to one list of records, in any order:
\* the sanitizers to the whole list, the remapper to its records in turn.
ImmutableInit ==
    /\ session \in SeqUpTo(ContentMessages, MaxMsgs)
    /\ sanBase \in BasePaths
    /\ procCwd = <<"/", "w">>
    /\ sanStatus = "idle"
    /\ sanOut = << >>
    /\ sanError = ""
    /\ NewMapper(session)
    /\ lines = << >>
    /\ readable = TRUE
    /\ argAfter = << >>
    /\ passes = << >>
    /\ DecodeIdle
    /\ RedactIdle
    /\ PathIdle
    /\ ExportIdle
    /\ WriterIdle

SanitizeInit ==
    /\ session \in SeqUpTo(SampleMessages, MaxSession)
    /\ sanBase \in BasePaths
    /\ procCwd \in ProcessCwds
    /\ sanStatus = "idle"
    /\ sanOut = << >>
    /\ sanError = ""
    /\ NewMapper(<< >>)
    /\ lines = << >>
    /\ readable = TRUE
    /\ argAfter = << >>
    /\ passes = << >>
    /\ DecodeIdle
    /\ RedactIdle
    /\ PathIdle
    /\ ExportIdle
    /\ WriterIdle

SanitizeNext ==
    /\ SanitizeSession
    /\ UNCHANGED <<mapperVars, lines, readable, readerVars, importVars, redactVars,
                   pathVars, rdDelivered, imReport, exportVars, writerVars, passes,
                   imFile>>

ImmutableNext ==
    \/ /\ SanitizeSession
       /\ UNCHANGED <<mapperVars, lines, readable, readerVars, importVars, redactVars,
                      pathVars, rdDelivered, imReport, exportVars, writerVars, passes,
                      imFile>>
    \/ /\ RemapMessage
       /\ UNCHANGED <<lines, readable, readerVars, importVars, sanitizeVars, redactVars,
                      pathVars, rdDelivered, imReport, exportVars, writerVars, passes,
                      imFile>>

SpecImmutable == ImmutableInit /\ [][ImmutableNext]_vars

SpecSanitize == SanitizeInit /\ [][SanitizeNext]_vars

RedactInit ==
    /\ secret \in SeededSecrets
    /\ \E before \in TextsBefore, after \in TextsAfter :
           redText = before \o secret.literal \o after
    /\ redacted = << >>
    /\ redStatus = "idle"
    /\ NewMapper(<< >>)
    /\ lines = << >>
    /\ readable = TRUE
    /\ argAfter = << >>
    /\ passes = << >>
    /\ DecodeIdle
    /\ SanitizeIdle
    /\ PathIdle
    /\ ExportIdle
    /\ WriterIdle

RedactNext ==
    /\ Redact
    /\ UNCHANGED <<mapperVars, lines, readable, readerVars, importVars, sanitizeVars, pathVars, rdDelivered, imReport, exportVars, writerVars, argAfter, passes, imFile>>

SpecRedact == RedactInit /\ [][RedactNext]_vars

BenignInit ==
    /\ secret \in BenignLiterals
    /\ \E before \in BenignBefore, after \in BenignAfter :
           redText = before \o secret.literal \o after
    /\ redacted = << >>
    /\ redStatus = "idle"
    /\ NewMapper(<< >>)
    /\ lines = << >>
    /\ readable = TRUE
    /\ argAfter = << >>
    /\ passes = << >>
    /\ DecodeIdle
    /\ SanitizeIdle
    /\ PathIdle
    /\ ExportIdle
    /\ WriterIdle

SpecBenign == BenignInit /\ [][RedactNext]_vars

PathInit ==
    /\ pathArg \in SamplePaths
    /\ pathBase \in PathBases
    /\ procCwd \in ProcessCwds
    /\ pathOut = << >>
    /\ pathAgain = << >>
    /\ pathStatus = "idle"
    /\ session = << >>
    /\ sanBase = << >>
    /\ sanStatus = "idle"
    /\ sanOut = << >>
    /\ sanError = ""
    /\ NewMapper(<< >>)
    /\ lines = << >>
    /\ readable = TRUE
    /\ argAfter = << >>
    /\ passes = << >>
    /\ DecodeIdle
    /\ RedactIdle
    /\ ExportIdle
    /\ WriterIdle

PathNext ==
    \/ /\ SanitizePath
       /\ UNCHANGED <<mapperVars, lines, readable, readerVars, importVars, sanitizeVars,
                      redactVars, rdDelivered, imReport, exportVars, writerVars, argAfter, passes, imFile>>
    \/ /\ SanitizePathAgain
       /\ UNCHANGED <<mapperVars, lines, readable, readerVars, importVars, sanitizeVars,
                      redactVars, rdDelivered, imReport, exportVars, writerVars, argAfter, passes, imFile>>

SpecPath == PathInit /\ [][PathNext]_vars

ExportInit ==
    /\ lines \in SeqUpTo(ExportLines, MaxLines)
    /\ readable = TRUE
    /\ argAfter = << >>
    /\ passes = << >>
    /\ procCwd = <<"/", "w">>
    /\ session = << >>
    /\ sanBase = << >>
    /\ sanStatus = "idle"
    /\ sanOut = << >>
    /\ sanError = ""
    /\ ExportIdle
    /\ NewMapper(<< >>)
    /\ DecodeIdle
    /\ RedactIdle
    /\ PathIdle
    /\ WriterIdle

ExportNext ==
    \/ /\ UploadRead
       /\ UNCHANGED <<mapperVars, lines, readerVars, importVars, sanitizeVars,
                      redactVars, pathVars, rdDelivered, imReport, writerVars, argAfter, passes, imFile>>
    \/ /\ UploadSanitize
       /\ UNCHANGED <<mapperVars, lines, readerVars, importVars, sanitizeVars,
                      redactVars, pathVars, rdDelivered, imReport, writerVars, argAfter, passes, imFile>>
    \/ /\ UploadCreateGist
       /\ UNCHANGED <<mapperVars, lines, readerVars, importVars, sanitizeVars,
                      redactVars, pathVars, rdDelivered, imReport, writerVars, argAfter, passes, imFile>>
    \/ /\ ShareSession
       /\ UNCHANGED <<mapperVars, lines, readerVars, importVars, sanitizeVars,
                      redactVars, pathVars, rdDelivered, imReport, writerVars, argAfter, passes, imFile>>

\* The lines of a session that is exported and then imported: a user record,
\* an assistant record that answers it, a line that is no JSON and an object
\* without a type.
OrderLines ==
    { BadJsonLine, stringify(UserSample), stringify(LegacySample),
      ObjectLine(Undefined, "b", "s", "a") }

OrderInit ==
    /\ lines \in SeqUpTo(OrderLines, MaxLines)
    /\ readable = TRUE
    /\ argAfter = << >>
    /\ passes = << >>
    /\ procCwd = <<"/", "w">>
    /\ session = << >>
    /\ sanBase = << >>
    /\ sanStatus = "idle"
    /\ sanOut = << >>
    /\ sanError = ""
    /\ ExportIdle
    /\ NewMapper(<< >>)
    /\ DecodeIdle
    /\ RedactIdle
    /\ PathIdle
    /\ WriterIdle

\* share_session on the file, and once it has reported, the decoder and
\* import_session on the same lines.
OrderNext ==
    \/ ExportNext
    \/ /\ shareReport # << >>
       /\ DecodeNext

SpecOrder == OrderInit /\ [][OrderNext]_vars

SpecExport == ExportInit /\ [][ExportNext]_vars

WriterInit ==
    /\ wrMessages \in SeqUpTo(SampleMessages, MaxSession)
    /\ wrStatus = "idle"
    /\ wrIo = "ok"
    /\ wrFile = << >>
    /\ wrResult = << >>
    /\ wrError = << >>
    /\ lines = << >>
    /\ readable = TRUE
    /\ argAfter = << >>
    /\ passes = << >>
    /\ NewMapper(<< >>)
    /\ DecodeIdle
    /\ SanitizeIdle
    /\ RedactIdle
    /\ PathIdle
    /\ ExportIdle

WriterNext ==
    \/ /\ WriterMkdir
       /\ UNCHANGED <<mapperVars, lines, readable, readerVars, importVars,
                      sanitizeVars, redactVars, pathVars, rdDelivered, imReport,
                      exportVars, argAfter, passes, imFile>>
    \/ /\ WriterWriteFile
       /\ UNCHANGED <<mapperVars, lines, readable, readerVars, importVars,
                      sanitizeVars, redactVars, pathVars, rdDelivered, imReport,
                      exportVars, argAfter, passes, imFile>>

SpecWriter == WriterInit /\ [][WriterNext]_vars

(***************************************************************************)
(* Claims about the decoders                                               *)
(***************************************************************************)

\* A parsed value carries the three required common fields: it is an object
\* with a string uuid, a string sessionId and one of the three variant tags.
HasCommonFields(v) ==
    /\ v.json = "object"
    /\ IsString(v.uuid)
    /\ IsString(v.sessionId)
    /\ v.type \in MessageTypes

\* A well-formed line: it parses and carries the required common fields.
WellFormedLine(l) == l.kind = "json" /\ HasCommonFields(l.val)

\* The values of the well-formed lines of a source, in source order.
WellFormedValues(ls) ==
    LET kept == SelectSeq(ls, WellFormedLine)
    IN  [i \in 1..Len(kept) |-> kept[i].val]

\* Step 4 of importSession has run and its result is in imMessages.
ImportDecoded ==
    /\ imStatus # "idle"
    /\ imError \notin {"GistError", "NoJsonlFile", "NoContent"}

\* C4: a source of N well-formed lines interleaved with M malformed lines
\* decodes to exactly N messages, with either decoder.
C4_DecodeCount ==
    /\ rdStatus = "returned" => Len(rdMessages) = Len(WellFormedValues(lines))
    /\ ImportDecoded => Len(imMessages) = Len(WellFormedValues(lines))

\* C8: a line that parses but lacks a required common field never appears in
\* a decoder's output, and the well-formed lines around it are all decoded.
C8_MissingFieldsSkipped ==
    /\ rdStatus = "returned" =>
          /\ \A i \in 1..Len(rdMessages) : HasCommonFields(rdMessages[i])
          /\ SelectSeq(rdMessages, HasCommonFields) = WellFormedValues(lines)
    /\ ImportDecoded =>
          /\ \A i \in 1..Len(imMessages) : HasCommonFields(imMessages[i])
          /\ SelectSeq(imMessages, HasCommonFields) = WellFormedValues(lines)

\* C9: no per-line parse or validation problem reaches the caller of a decode
\* as an error: parseSessionFile throws only when the file cannot be read,
\* and importSession fails only on the gist, on an empty result or on the
\* write, never on what a line contains.
C9_NoLineErrorEscapes ==
    /\ rdStatus = "threw" => ~readable
    /\ imStatus = "failed" =>
          imError \in {"GistError", "NoJsonlFile", "NoContent", "NoValidMessages",
                       "WritePermissionDenied", "WriteDiskFull", "WriteFailed"}

\* C19: when the session file cannot be opened, or its stream fails while it
\* is read, parseSessionFile throws and returns no message list, whatever
\* lines were decoded before the failure.
C19_UnreadableSourceFails ==
    (rdStatus # "idle" /\ ~readable)
        => (rdStatus = "threw" /\ rdMessages = << >>)

\* C19 witness: the stream failed after a well-formed line was decoded, and
\* the call threw.
C19_Witness ==
    /\ rdStatus = "threw"
    /\ ~readable
    /\ rdDelivered = 1
    /\ lines = <<ObjectLine("user", "a", "s", Null), BadJsonLine>>
    /\ rdMessages = << >>

(***************************************************************************)
(* Claims about the export                                                 *)
(***************************************************************************)

\* The positions of the user records of a message list.
UserRecords(messages) ==
    { i \in 1..Len(messages) : messages[i].type = "user" }

\* C14: the base path uploadSession infers is the cwd of the first user
\* record of the stream, whatever the later user records hold, and it is
\* empty if the stream has no user record, in which case the project path
\* stays in every text that held it.
C14_BaseIsFirstUserCwd ==
    upStatus \in {"uploading", "done"} =>
        IF UserRecords(upMessages) = {}
        THEN /\ upBase = << >>
             /\ \A i \in 1..Len(upMessages) :
                  upMessages[i].snapshot # << >> =>
                    \A k \in 1..Len(upMessages[i].snapshot[1].messages) :
                      Contains(upMessages[i].snapshot[1].messages[k].content, ProjectPath)
                        => Contains(upSanitized[i].snapshot[1].messages[k].content,
                                    ProjectPath)
        ELSE upBase = upMessages[Min(UserRecords(upMessages))].cwd

\* Every line of the source is malformed, and there is at least one.
AllMalformed(ls) ==
    ls # << >> /\ \A i \in 1..Len(ls) : ls[i].kind = "badjson"

\* What the share_session handler answers for a readable source without
\* content.
EmptyInputReport ==
    shareCatch(uploadCatch(<<checkMessages(parseSessionFile(<< >>).messages).error>>))

\* C17: for a readable source every line of which is malformed, the answer of
\* the share_session handler is not the answer it gives for a readable
\* source without content.
C17_NoValidDistinctFromEmpty ==
    (shareReport # << >> /\ readable /\ AllMalformed(lines))
        => shareReport # EmptyInputReport

(***************************************************************************)
(* Claims about the reports of failures                                    *)
(***************************************************************************)

\* The parts of an error message that are a context put in front of the
\* message of a caught error.
Contexts ==
    { WriteContext, FetchGistContext, CreateGistContext, ImportContext,
      ImportFailedContext, UploadContext, ShareContext }

\* How many times the error behind a message was wrapped with context.
Wraps(message) ==
    Cardinality({ i \in 1..Len(message) : message[i] \in Contexts })

\* C18: the failure an import or an export reports to its caller was wrapped
\* with context at most once on its way up.
C18_WrappedAtMostOnce ==
    /\ (imStatus = "failed" /\ imReport # << >>) => Wraps(imReport) <= 1
    /\ (upStatus = "failed" /\ shareReport # << >>) => Wraps(shareReport) <= 1

(***************************************************************************)
(* Claims about the writer                                                 *)
(***************************************************************************)

\* C15: the file writeSessionToLocal writes holds one line per message, in
\* the order of the messages, each followed by one newline: one newline
\* between two lines and one at the end of the file.
C15_OneLinePerMessage ==
    wrStatus = "returned" =>
        /\ Len(wrFile) = 2 * Len(wrMessages)
        /\ \A i \in 1..Len(wrMessages) :
             /\ wrFile[2 * i - 1] = stringify(wrMessages[i])
             /\ wrFile[2 * i] = Newline

\* C15 witness: two different messages were written, as two lines.
C15_Witness ==
    /\ wrStatus = "returned"
    /\ wrMessages = <<UserSample, LegacySample>>
    /\ wrFile = <<stringify(UserSample), Newline, stringify(LegacySample), Newline>>

\* C16: when mkdir or writeFile fails, writeSessionToLocal throws and returns
\* no result, and the error it throws is of one of three kinds, decided by
\* the code of the failure: permission denied for EACCES, disk full for
\* ENOSPC, the general write failure for any other code.
C16_IoFailureIsFatal ==
    wrIo # "ok" =>
        /\ wrStatus = "threw"
        /\ wrResult = << >>
        /\ Head(wrError) \in {PermissionDenied, DiskFull, WriteContext}
        /\ (Head(wrError) = PermissionDenied) <=> (wrIo = "EACCES")
        /\ (Head(wrError) = DiskFull) <=> (wrIo = "ENOSPC")
        /\ (Head(wrError) = WriteContext) <=> (wrIo \notin {"EACCES", "ENOSPC"})

\* C16 witness: the disk was full, and that is what the error says.
C16_Witness ==
    /\ wrIo = "ENOSPC"
    /\ wrMessages = <<UserSample>>
    /\ wrStatus = "threw"
    /\ wrError = <<DiskFull>>
    /\ wrResult = << >>

(***************************************************************************)
(* Claims about sanitizePath                                               *)
(***************************************************************************)

\* The resolved path lies under the resolved base: the segments of the base
\* are the first segments of the path.
LiesUnder(path, base, cwd) ==
    LET b == NormalizeSegments(Split(resolve(cwd, base)), << >>)
        q == NormalizeSegments(Split(resolve(cwd, path)), << >>)
    IN  Len(b) <= Len(q) /\ SubSeq(q, 1, Len(b)) = b

\* C11: sanitizePath(path, basePath) returns path unchanged whenever basePath
\* is empty or the resolved path does not lie under the resolved basePath.
C11_OutsidePathUnchanged ==
    (/\ pathStatus # "idle"
     /\ pathBase = << >> \/ ~LiesUnder(pathArg, pathBase, procCwd))
        => pathOut = pathArg

\* C12: sanitizePath is idempotent: applied to its own result with the same
\* base it returns that result.
C12_SanitizePathIdempotent ==
    pathStatus = "twice" => pathAgain = pathOut

(***************************************************************************)
(* Claims about the sanitizers and the redactor                            *)
(***************************************************************************)

\* The record carries internal reasoning: a snapshot whose thinking is not
\* null, or a message with a thinking block in its content.
CarriesReasoning(msg) ==
    \/ /\ msg.snapshot # << >>
       /\ msg.snapshot[1].thinking # << >>
    \/ /\ msg.message # << >>
       /\ \E k \in 1..Len(msg.message[1].content) :
              msg.message[1].content[k].type = "thinking"

\* C2: after sanitization no assistant record of the output carries internal
\* reasoning: the thinking of a snapshot is null and the content of a message
\* holds no thinking block.
C2_NoReasoningAfterSanitize ==
    sanStatus = "returned" =>
        \A i \in 1..Len(sanOut) :
            sanOut[i].type = "assistant" => ~CarriesReasoning(sanOut[i])

\* C3: for a text containing a literal of one of the six secret families,
\* redactSecrets returns a text that does not contain the literal and that
\* contains the redaction marker.
C3_SeededSecretsRedacted ==
    redStatus = "done" =>
        /\ ~Contains(redacted, secret.literal)
        /\ Contains(redacted, Redacted) \/ Contains(redacted, RedactedPrivateKey)

\* C21: a UUID, a run of fewer than 32 hexadecimal digits and a colour code
\* that occur in the text handed to redactSecrets occur in the text it
\* returns.
C21_BenignLiteralsKept ==
    (redStatus = "done" /\ secret.family \in {7, 8, 9})
        => Contains(redacted, secret.literal)

\* C7: the i-th record returned by sanitizeSession has the uuid, parentUuid
\* and sessionId of the i-th input record, for every input list and base path.
C7_IdentityUntouched ==
    sanStatus = "returned" =>
        /\ Len(sanOut) = Len(session)
        /\ \A i \in 1..Len(session) :
              /\ sanOut[i].uuid = session[i].uuid
              /\ sanOut[i].parentUuid = session[i].parentUuid
              /\ sanOut[i].sessionId = session[i].sessionId

\* C7 witness: a user record and its assistant child were sanitized, their
\* content was rewritten, and the edge between them is as it was.
C7_Witness ==
    /\ sanStatus = "returned"
    /\ session = <<UserSample, LegacySample>>
    /\ sanOut[1].cwd = <<".">>
    /\ sanOut[2].snapshot # session[2].snapshot
    /\ sanOut[1].uuid = "a"
    /\ sanOut[2].parentUuid = "a"

\* The blocks of a block list whose type is neither text nor thinking.
OtherBlocks(content) ==
    LET Other(block) == block.type \notin {"text", "thinking"}
    IN  SelectSeq(content, Other)

\* C13: in an assistant record with message, the blocks whose type is neither
\* text nor thinking are in the sanitized content with all their fields as
\* in the input, in the same order.
C13_OtherBlocksPassThrough ==
    sanStatus = "returned" =>
        \A i \in 1..Len(session) :
            (session[i].type = "assistant" /\ session[i].message # << >>)
                => /\ sanOut[i].message # << >>
                   /\ OtherBlocks(sanOut[i].message[1].content)
                        = OtherBlocks(session[i].message[1].content)

\* C13 witness: a record with a tool_result, a thinking, a text and a tool_use
\* block was sanitized; the thinking block is gone, the text was rewritten,
\* and the two tool blocks with their paths are as they were.
C13_Witness ==
    /\ sanStatus = "returned"
    /\ session = <<BlocksSample>>
    /\ sanBase = ProjectPath
    /\ Len(sanOut[1].message[1].content) = 3
    /\ sanOut[1].message[1].content[2].text = <<"s", "e", "e", " ", "x">>
    /\ sanOut[1].message[1].content[1] = BlocksSample.message[1].content[1]
    /\ sanOut[1].message[1].content[3] = BlocksSample.message[1].content[4]

\* A relative path: it is not empty and does not start at the root.
IsRelative(p) == p # << >> /\ p[1] # "/"

\* A text without absolute path and without anything shaped like a
\* credential: every slash follows a name, there is no assignment and no
\* quote, and the text is shorter than the shortest generic secret.
CleanText(t) ==
    /\ Len(t) < MinGenericSecret
    /\ \A i \in 1..Len(t) :
         /\ t[i] \notin {":", "=", "\\"} \cup QuoteChars
         /\ t[i] = "/" => (i > 1 /\ IsWord(t[i - 1]))

\* A record as an earlier sanitize pass leaves it: a user record with a
\* relative cwd, or an assistant record with null thinking, no thinking
\* block and clean texts.
AlreadyClean(msg) ==
    \/ msg.type = "user" /\ IsRelative(msg.cwd)
    \/ /\ msg.type = "assistant"
       /\ msg.snapshot # << >> \/ msg.message # << >>
       /\ msg.snapshot # << >> =>
            /\ msg.snapshot[1].thinking = << >>
            /\ \A k \in 1..Len(msg.snapshot[1].messages) :
                 CleanText(msg.snapshot[1].messages[k].content)
       /\ msg.message # << >> =>
            \A k \in 1..Len(msg.message[1].content) :
                 /\ msg.message[1].content[k].type # "thinking"
                 /\ CleanText(msg.message[1].content[k].text)

\* C20: a user record whose cwd is already relative, and an assistant record
\* whose thinking is already null and whose texts are clean, come out of
\* sanitizeSession as they went in.
C20_CleanRecordUnchanged ==
    sanStatus = "returned" =>
        \A i \in 1..Len(session) :
            AlreadyClean(session[i]) => sanOut[i] = session[i]

\* An assistant record with neither snapshot nor message.
HasNeither(msg) ==
    /\ msg.json = "object"
    /\ msg.type = "assistant"
    /\ msg.snapshot = << >>
    /\ msg.message = << >>

\* C10: sanitizing an assistant record that has neither snapshot nor message
\* ends the call with an error, the explicit format error unless an earlier
\* record failed first; nothing is returned, so the record is neither emitted
\* unchanged nor coerced to one of the representations.
C10_NeitherIsAnError ==
    sanStatus # "idle" =>
        \A i \in 1..Len(session) :
            HasNeither(session[i]) =>
                /\ sanStatus = "threw"
                /\ sanOut = << >>
                /\ (\A j \in 1..(i - 1) :
                        ~sanitizeMessage(session[j], sanBase, procCwd).threw)
                      => sanError = AssistantFormatError

\* C10 witness: a list whose second record has neither field was sanitized and
\* the call threw the format error.
C10_Witness ==
    /\ sanStatus = "threw"
    /\ sanError = AssistantFormatError
    /\ session = <<LegacySample, NeitherSample>>
    /\ sanOut = << >>

(***************************************************************************)
(* Claims about the identifier remapper                                    *)
(***************************************************************************)

\* C1: for a message list mapped in order through remapMessage of one shared
\* mapper, whenever record B's parentUuid equals record A's uuid before
\* remapping, remapped B's parentUuid equals remapped A's uuid.
C1_ParentEdgesPreserved ==
    \A i, j \in 1..Len(outputs) :
        inputs[j].parentUuid = inputs[i].uuid
            => outputs[j].parentUuid = outputs[i].uuid

\* C1 witness: a parent and its child have both been remapped, and the edge
\* between them joins two generated identifiers.
C1_Witness ==
    /\ Len(outputs) = 2
    /\ inputs[1].uuid # inputs[2].uuid
    /\ inputs[2].parentUuid = inputs[1].uuid
    /\ outputs[2].parentUuid = outputs[1].uuid
    /\ outputs[1].uuid \in NewUuids

\* A message without its three identifier fields.
OtherFields(msg) ==
    [msg EXCEPT !.uuid = Null, !.sessionId = Null, !.parentUuid = Null]

\* C22: the message remapMessage returns has every field of its argument
\* other than uuid, sessionId and parentUuid (type, cwd, snapshot, message)
\* with the value it has in the argument.
C22_RemapKeepsOtherFields ==
    \A i \in 1..Len(outputs) :
        OtherFields(outputs[i]) = OtherFields(inputs[i])

\* C22 witness: a user record with cwd and text and an assistant record with
\* a snapshot were remapped, to generated identifiers, and hold their content.
C22_Witness ==
    /\ inputs = <<UserSample, LegacySample>>
    /\ Len(outputs) = 2
    /\ outputs[1].uuid \in NewUuids
    /\ outputs[1].uuid # inputs[1].uuid
    /\ outputs[1].cwd = ProjectPath
    /\ outputs[2].snapshot = LegacySample.snapshot

\* C5: within one pass every call remap(x), x non-null, returns the identifier
\* the first call remap(x) returned, whatever was remapped in between; this
\* covers the direct calls and the three calls inside each remapMessage.
C5_RemapIsAFunction ==
    /\ lastArg # Null => lastRet = firstRet[lastArg]
    /\ \A i \in 1..Len(outputs) :
          /\ outputs[i].uuid = firstRet[inputs[i].uuid]
          /\ outputs[i].sessionId = firstRet[inputs[i].sessionId]
          /\ inputs[i].parentUuid # Null
                => outputs[i].parentUuid = firstRet[inputs[i].parentUuid]

\* C5 witness: remap is called again for an identifier after other identifiers
\* were remapped, and returns the first call's value.
C5_Witness ==
    /\ repeat
    /\ lastArg = "a"
    /\ Cardinality(DOMAIN map) = 3
    /\ lastRet = firstRet["a"]

\* C6: within one pass remap is injective on non-null identifiers: distinct
\* arguments are never given the same identifier.
C6_RemapInjective ==
    \A x, y \in DOMAIN firstRet :
        x # y => firstRet[x] # firstRet[y]

\* C6 witness: three distinct identifiers have been remapped, pairwise apart.
C6_Witness ==
    /\ DOMAIN firstRet = OrigIds
    /\ Cardinality({firstRet[x] : x \in OrigIds}) = 3

C24_EmptyListWritesNewline ==
    (wrMessages = << >> /\ wrStatus # "idle")
        => (wrStatus = "returned" /\ wrFile = <<Newline>>)

\* The values of the lines of ls that hold JSON, in the order of the lines.
JsonValues(ls) ==
    LET json == SelectSeq(ls, LAMBDA l : l.kind = "json")
    IN  [i \in 1..Len(json) |-> json[i].val]

RECURSIVE IsSubsequence(_, _)
\* a can be had from b by leaving elements out.
IsSubsequence(a, b) ==
    IF a = << >> THEN TRUE
    ELSE IF b = << >> THEN FALSE
    ELSE IF Head(a) = Head(b) THEN IsSubsequence(Tail(a), Tail(b))
    ELSE IsSubsequence(a, Tail(b))

\* The number of times v occurs in s.
Occurrences(v, s) == Cardinality({ i \in 1..Len(s) : s[i] = v })

\* out holds records of inp in the order of inp, and every copy of a record
\* it holds.
KeptInOrder(out, inp) ==
    /\ IsSubsequence(out, inp)
    /\ \A i \in 1..Len(out) : Occurrences(out[i], out) = Occurrences(out[i], inp)

\* C25: message order is preserved at every stage: the decoders emit the
\* records they keep in line order with every duplicate, the sanitize and
\* remap passes emit one record per input record at the same position, and
\* the encoders write the records in list order.
C25_OrderPreserved ==
    /\ rdStatus = "returned" => KeptInOrder(rdMessages, JsonValues(lines))
    /\ KeptInOrder(upMessages, JsonValues(lines))
    /\ KeptInOrder(imMessages, JsonValues(lines))
    /\ upStatus \in {"uploading", "done"} =>
          /\ Len(upSanitized) = Len(upMessages)
          /\ \A i \in 1..Len(upMessages) :
                /\ upSanitized[i].uuid = upMessages[i].uuid
                /\ upSanitized[i].type = upMessages[i].type
          /\ JsonValues(upJsonl) = upSanitized
    /\ imStatus \in {"remapping", "done"} =>
          /\ inputs = imMessages
          /\ Len(outputs) <= Len(inputs)
          /\ \A i \in 1..Len(outputs) : OtherFields(outputs[i]) = OtherFields(inputs[i])
    /\ imStatus = "done" =>
          /\ Len(outputs) = Len(imMessages)
          /\ imWritten = outputs

\* C25 witness: a session whose assistant record comes before the user record
\* it answers and once more after it went through export and import, and came
\* out in that order with the duplicate.
C25_Witness ==
    /\ lines = <<stringify(LegacySample), stringify(UserSample), stringify(LegacySample)>>
    /\ upStatus = "done"
    /\ upSanitized[1].uuid = "b" /\ upSanitized[2].uuid = "a" /\ upSanitized[3].uuid = "b"
    /\ upSanitized # upMessages
    /\ imStatus = "done"
    /\ Len(imWritten) = 3
    /\ imWritten[1].type = "assistant" /\ imWritten[2].type = "user"
    /\ imWritten[3] = imWritten[1]

\* C26: on export every record of the text handed to createGist is the result
\* of the sanitizer for its kind, user, assistant or file snapshot, applied to
\* the decoded record at its position.
C26_EveryRecordSanitized ==
    upStatus \in {"uploading", "done"} =>
        \A i \in 1..Len(upSanitized) :
            LET msg == upMessages[i]
            IN  \/ /\ msg.type = "user"
                   /\ upSanitized[i] = sanitizeUserMessage(msg, upBase, procCwd)
                \/ /\ msg.type = "assistant"
                   /\ upSanitized[i] = sanitizeAssistantMessage(msg, upBase, procCwd).value
                \/ /\ msg.type = "file-history-snapshot"
                   /\ upSanitized[i] = sanitizeFileHistorySnapshot(msg, upBase, procCwd).value

\* The invariants of a stream of records: every record is an object with a
\* string uuid, no two records share a uuid, and a parentUuid that is not
\* null is the uuid of a record at or before its position.
StreamInvariants(msgs) ==
    /\ \A i \in 1..Len(msgs) : msgs[i].json = "object" /\ IsString(msgs[i].uuid)
    /\ \A i, j \in 1..Len(msgs) : i # j => msgs[i].uuid # msgs[j].uuid
    /\ \A i \in 1..Len(msgs) :
          msgs[i].parentUuid # Null
              => \E j \in 1..i : msgs[j].uuid = msgs[i].parentUuid

\* C27: when the records decoded from the fetched gist satisfy the stream
\* invariants, so do the records importSession hands to the writer.
C27_ImportKeepsStreamInvariants ==
    (imStatus = "done" /\ StreamInvariants(imMessages)) => StreamInvariants(imWritten)

\* C27 witness: a gist with a line that is dropped, a root record and a record
\* that answers it has been imported; the written records carry two distinct
\* generated uuids and the second names the first as its parent.
C27_Witness ==
    /\ lines = <<BadJsonLine, ObjectLine("user", "a", "s", Null),
                 ObjectLine("assistant", "b", "s", "a")>>
    /\ imStatus = "done"
    /\ StreamInvariants(imMessages)
    /\ Len(imWritten) = 2
    /\ imWritten[1].uuid \in NewUuids
    /\ imWritten[2].uuid \in NewUuids \ {imWritten[1].uuid}
    /\ imWritten[2].parentUuid = imWritten[1].uuid

\* The original identifiers of the records of msgs: uuid, sessionId and the
\* parentUuid that is not null.
IdsOf(msgs) ==
    UNION { {msgs[i].uuid, msgs[i].sessionId, msgs[i].parentUuid} \ {Null} :
              i \in 1..Len(msgs) }

\* The identifiers a table hands out.
Issues(table) == { table[x] : x \in DOMAIN table }

\* C28: no state is shared between import passes: the table of each pass
\* holds the associations of the records that pass has remapped and no
\* other, the identifiers the pass wrote are the ones of its own table, and
\* no identifier is handed out by the tables of two passes, however the
\* passes interleave.
C28_PassesShareNoTable ==
    /\ \A p \in PassIds :
          LET pass == passes[p]
              n == Len(pass.outputs)
          IN  /\ DOMAIN pass.map = IdsOf(SubSeq(pass.inputs, 1, n))
              /\ \A i \in 1..n :
                    /\ pass.outputs[i].uuid = pass.map[pass.inputs[i].uuid]
                    /\ pass.outputs[i].sessionId = pass.map[pass.inputs[i].sessionId]
                    /\ pass.inputs[i].parentUuid # Null =>
                          pass.outputs[i].parentUuid = pass.map[pass.inputs[i].parentUuid]
    /\ \A p, q \in PassIds :
          p # q => Issues(passes[p].map) \cap Issues(passes[q].map) = {}

\* C28 witness: two passes over the same two records have both ended, and
\* each gave the records identifiers of its own.
C28_Witness ==
    /\ passes[1].inputs = passes[2].inputs
    /\ Len(passes[1].inputs) = 2
    /\ passes[1].inputs[1].uuid = "a" /\ passes[1].inputs[2].parentUuid = "a"
    /\ Len(passes[1].outputs) = 2
    /\ Len(passes[2].outputs) = 2
    /\ passes[1].outputs[1].uuid # passes[2].outputs[1].uuid
    /\ passes[1].outputs[1].sessionId # passes[2].outputs[1].sessionId
    /\ passes[2].outputs[2].parentUuid = passes[2].outputs[1].uuid

\* C29: the name of the session file written on import, which is the
\* sessionId returned to the caller, is the sessionId of every record in the
\* file.
C29_FileNameIsStreamId ==
    imStatus = "done" =>
        \A i \in 1..Len(imWritten) : imWritten[i].sessionId = imFile

\* C30: createGist is invoked only after decoding has produced at least one
\* message and the sanitizer has returned for every decoded record, and what
\* it is handed is the sanitized records; when decoding yields no message or
\* a sanitizer throws, createGist is not invoked.
C30_PublishOnlyAfterSanitize ==
    gistFiles # << >> =>
        /\ upMessages # << >>
        /\ \A i \in 1..Len(upMessages) :
              ~sanitizeMessage(upMessages[i], upBase, procCwd).threw
        /\ gistFiles[1].content = upJsonl
        /\ JsonValues(upJsonl) =
              [i \in 1..Len(upMessages) |->
                  sanitizeMessage(upMessages[i], upBase, procCwd).value]

\* C30 witness: a file with a line that is dropped and two records has been
\* decoded and sanitized, and createGist was handed the sanitized text.
C30_Witness ==
    /\ lines = <<stringify(UserSample), BadJsonLine, stringify(LegacySample)>>
    /\ upStatus = "done"
    /\ Len(upMessages) = 2
    /\ upSanitized # upMessages
    /\ gistFiles # << >>
    /\ gistFiles[1].content = <<stringify(upSanitized[1]), Newline, stringify(upSanitized[2])>>

=============================================================================
